---- MODULE Spec2Model ----
(***************************************************************************)
(* State-changes gap analyzer of postgres-data-handler-repair.             *)
(*                                                                         *)
(* Two scripts scan the same pair of files:                                *)
(*   tools/analyze_state_changes.py        (impl = "tools")                *)
(*   cmd/analyze_state_changes/analyze.py  (impl = "cmd")                  *)
(* Files are sequences of bytes (0..255).  Python integers are unbounded;  *)
(* the model keeps every value below BIG exactly and saturates at BIG      *)
(* above it: every threshold the code compares against (2, 24, 10 MiB,     *)
(* 100_000_000) lies below BIG.  Where the code separates values above     *)
(* BIG (seek past 2^63-1, read of more than 2^63-1 bytes) the model        *)
(* decides from the bytes themselves.                                      *)
(***************************************************************************)
EXTENDS Integers, Sequences, FiniteSets, TLC

(***************************************************************************)
(* Bounds of the model.                                                    *)
(***************************************************************************)
BIG == 1073741824
MaxEntries == 3
MaxWindows == 6
HeightBase == 10
HeightSpan == 7
MaxRawLen == 4

(***************************************************************************)
(* Program constants.                                                      *)
(***************************************************************************)
None == -1
inf == 2000000000
INDEX_ENTRY_SIZE == 8
MAX_ENTRY_LENGTH == 10 * 1024 * 1024
MAX_BLOCK_HEIGHT == 100000000
ENCODER_TYPE_BLOCK == 2
MIN_PARSE_LENGTH == 3
MIN_BLOCK_ENTRY_LENGTH == 24
GAP_DISPLAY_CAP == 50
CMD_MIN_BLOCK_ENTRY_LENGTH == 20
OFFSETS_FROM_END == <<8, 16, 24, 32, 40, 48>>
CMD_OFFSETS == <<-8, -16, -24>>

(***************************************************************************)
(* Integer helpers (saturating at BIG).                                    *)
(***************************************************************************)
Min2(a, b) == IF a < b THEN a ELSE b
Max2(a, b) == IF a > b THEN a ELSE b

SatAdd(a, b) == IF a >= BIG - b THEN BIG ELSE a + b

SatMul(a, b) ==
    IF a = 0 \/ b = 0 THEN 0
    ELSE IF a > BIG \div b THEN BIG
    ELSE Min2(a * b, BIG)

\* 2^n, saturating (2^30 is the largest power of two below 2^31)
SatPow2(n) == IF n > 30 THEN BIG ELSE Min2(2 ^ n, BIG)

\* value << shift
Shl(value, shift) == SatMul(value, SatPow2(shift))

\* number of bits of a byte value (int.bit_length)
RECURSIVE BitLength(_)
BitLength(b) == IF b = 0 THEN 0 ELSE 1 + BitLength(b \div 2)

(***************************************************************************)
(* Python slicing data[start:stop] on a sequence (0-based, negative        *)
(* indices count from the end, out-of-range indices are clamped).          *)
(***************************************************************************)
SliceIndex(n, i) == IF i < 0 THEN Max2(n + i, 0) ELSE Min2(i, n)

Slice(data, start, stop) ==
    LET s == SliceIndex(Len(data), start)
        e == SliceIndex(Len(data), stop)
    IN  IF s >= e THEN <<>> ELSE SubSeq(data, s + 1, e)

\* f.seek(pos); f.read(n): the bytes of the file from pos, at most n
FileRead(file, pos, n) ==
    IF pos >= Len(file) \/ n = 0 THEN <<>>
    ELSE SubSeq(file, pos + 1, Min2(Len(file), IF n >= BIG THEN Len(file) ELSE pos + n))

(***************************************************************************)
(* struct.unpack('<Q', b)[0]: b has exactly 8 bytes.                       *)
(***************************************************************************)
RECURSIVE unpack_Q_from(_, _)
unpack_Q_from(b, i) ==
    IF i > Len(b) THEN 0
    ELSE SatAdd(Shl(b[i], 8 * (i - 1)), unpack_Q_from(b, i + 1))

unpack_Q(b) == unpack_Q_from(b, 1)

\* the unpacked value is 2^63 or more: it does not fit a file offset
exceeds_off_t(b) == b[8] >= 128

(***************************************************************************)
(* read_uvarint(f): reads bytes of the file from position pos.             *)
(* Returns ok = FALSE (None) when the file ends before a byte with the top *)
(* bit clear; value is the decoded integer, pos the position after the     *)
(* last byte read, bits the bit length of the decoded integer.             *)
(***************************************************************************)
RECURSIVE read_uvarint_loop(_, _, _, _, _)
read_uvarint_loop(f, pos, result, shift, bits) ==
    IF pos >= Len(f)
    THEN [ok |-> FALSE, value |-> None, pos |-> pos, bits |-> 0]
    ELSE LET byte == f[pos + 1]
             low  == byte % 128
             r    == SatAdd(result, Shl(low, shift))
             nb   == IF low = 0 THEN bits ELSE shift + BitLength(low)
         IN  IF byte < 128
             THEN [ok |-> TRUE, value |-> r, pos |-> pos + 1, bits |-> nb]
             ELSE read_uvarint_loop(f, pos + 1, r, shift + 7, nb)

\* the streaming decoder with the shift advanced by 8 instead of 7
RECURSIVE read_uvarint_shift8_loop(_, _, _, _)
read_uvarint_shift8_loop(f, pos, result, shift) ==
    IF pos >= Len(f)
    THEN [ok |-> FALSE, value |-> None, pos |-> pos, bits |-> 0]
    ELSE LET r == SatAdd(result, Shl(f[pos + 1] % 128, shift))
         IN  IF f[pos + 1] < 128
             THEN [ok |-> TRUE, value |-> r, pos |-> pos + 1, bits |-> 0]
             ELSE read_uvarint_shift8_loop(f, pos + 1, r, shift + 8)

read_uvarint_shift8(f, pos) == read_uvarint_shift8_loop(f, pos, 0, 0)

read_uvarint(f, pos) == read_uvarint_loop(f, pos, 0, 0, 0)

(***************************************************************************)
(* read_uvarint_from_bytes(data, offset) -> (value, new_offset).           *)
(* Running off the end of data is not reported: the partial result is      *)
(* returned.                                                               *)
(***************************************************************************)
RECURSIVE read_uvarint_from_bytes_loop(_, _, _, _)
read_uvarint_from_bytes_loop(data, pos, result, shift) ==
    IF pos >= Len(data)
    THEN [value |-> result, pos |-> pos]
    ELSE LET byte == data[pos + 1]
             r    == SatAdd(result, Shl(byte % 128, shift))
         IN  IF byte < 128
             THEN [value |-> r, pos |-> pos + 1]
             ELSE read_uvarint_from_bytes_loop(data, pos + 1, r, shift + 7)

read_uvarint_from_bytes(data, offset) ==
    read_uvarint_from_bytes_loop(data, offset, 0, 0)

(***************************************************************************)
(* Block-height heuristic.                                                 *)
(***************************************************************************)
\* 0 < candidate < 100000000
plausible_inclusive(candidate) == 0 <= candidate /\ candidate <= MAX_BLOCK_HEIGHT

plausible(candidate) == 0 < candidate /\ candidate < MAX_BLOCK_HEIGHT

\* entry_bytes[-offset_from_end:-offset_from_end+8]
window(entry_bytes, offset_from_end) ==
    Slice(entry_bytes, -offset_from_end, -offset_from_end + 8)

\* the for loop over the offsets from position k of the list on:
\* struct.unpack raises on a slice that is not 8 bytes long, the bare
\* except passes and the loop goes on with the next offset
RECURSIVE find_block_height(_, _, _)
find_block_height(entry_bytes, offsets, k) ==
    IF k > Len(offsets) THEN None
    ELSE LET off == offsets[k]
             w   == window(entry_bytes, off)
         IN  IF Len(entry_bytes) >= off /\ Len(w) = 8 /\ plausible(unpack_Q(w))
             THEN unpack_Q(w)
             ELSE find_block_height(entry_bytes, offsets, k + 1)

(***************************************************************************)
(* parse_state_change_entry(entry_bytes) -> (encoder_type, block_height)   *)
(***************************************************************************)
parse_state_change_entry(entry_bytes) ==
    IF Len(entry_bytes) < MIN_PARSE_LENGTH
    THEN [encoder_type |-> None, block_height |-> None]
    ELSE LET op == read_uvarint_from_bytes(entry_bytes, 0)
         IN  IF op.pos >= Len(entry_bytes)
             THEN [encoder_type |-> None, block_height |-> None]
             ELSE IF op.pos + 1 >= Len(entry_bytes)
             THEN [encoder_type |-> None, block_height |-> None]
             ELSE LET enc == read_uvarint_from_bytes(entry_bytes, op.pos + 1)
                  IN  [encoder_type |-> enc.value,
                       block_height |->
                          IF enc.value = ENCODER_TYPE_BLOCK
                             /\ Len(entry_bytes) >= MIN_BLOCK_ENTRY_LENGTH
                          THEN find_block_height(entry_bytes, OFFSETS_FROM_END, 1)
                          ELSE None]

(***************************************************************************)
(* The inline parse of cmd/analyze_state_changes/analyze.py: the header is *)
(* read as three single bytes and three trailing windows are tried.        *)
(***************************************************************************)
RECURSIVE cmd_find_height(_, _)
cmd_find_height(entry_bytes, k) ==
    IF k > Len(CMD_OFFSETS) THEN None
    ELSE LET offset == CMD_OFFSETS[k]
             w      == Slice(entry_bytes, offset, offset + 8)
         IN  IF Len(entry_bytes) >= -offset /\ Len(w) = 8 /\ plausible(unpack_Q(w))
             THEN unpack_Q(w)
             ELSE cmd_find_height(entry_bytes, k + 1)

cmd_parse_entry(entry_bytes) ==
    IF Len(entry_bytes) < MIN_PARSE_LENGTH
    THEN [encoder_type |-> None, block_height |-> None]
    ELSE [encoder_type |-> entry_bytes[3],
          block_height |->
             IF entry_bytes[3] = ENCODER_TYPE_BLOCK
                /\ Len(entry_bytes) > CMD_MIN_BLOCK_ENTRY_LENGTH
             THEN cmd_find_height(entry_bytes, 1)
             ELSE None]

(***************************************************************************)
(* Gap analysis.                                                           *)
(***************************************************************************)
SetMin(S) == CHOOSE x \in S : \A y \in S : x <= y
SetMax(S) == CHOOSE x \in S : \A y \in S : x >= y

\* sorted(block_heights.keys())
RECURSIVE sorted(_)
sorted(S) == IF S = {} THEN <<>> ELSE <<SetMin(S)>> \o sorted(S \ {SetMin(S)})

\* tools: for i in range(len(heights) - 1): compare heights[i], heights[i+1]
RECURSIVE find_gaps_from(_, _)
find_gaps_from(heights, i) ==
    IF i >= Len(heights) THEN <<>>
    ELSE LET current     == heights[i]
             next_height == heights[i + 1]
         IN  (IF next_height # current + 1
              THEN << <<current + 1, next_height - 1>> >>
              ELSE <<>>) \o find_gaps_from(heights, i + 1)

\* the tools loop with the gap end taken as next_height
RECURSIVE find_gaps_end_off_by_one(_, _)
find_gaps_end_off_by_one(heights, i) ==
    IF i >= Len(heights) THEN <<>>
    ELSE (IF heights[i + 1] # heights[i] + 1
          THEN << <<heights[i] + 1, heights[i + 1]>> >>
          ELSE <<>>) \o find_gaps_end_off_by_one(heights, i + 1)

find_gaps_wrong_end(heights) == find_gaps_end_off_by_one(heights, 1)

find_gaps(heights) == find_gaps_from(heights, 1)

\* cmd: prev_height = heights[0] - 1; for height in heights: ...
RECURSIVE cmd_find_gaps_from(_, _, _)
cmd_find_gaps_from(heights, k, prev_height) ==
    IF k > Len(heights) THEN <<>>
    ELSE LET height == heights[k]
         IN  (IF height # prev_height + 1
              THEN << <<prev_height + 1, height - 1>> >>
              ELSE <<>>) \o cmd_find_gaps_from(heights, k + 1, height)

\* the cmd loop with prev_height seeded with the first height itself
cmd_find_gaps_seeded_with_first(heights) ==
    IF Len(heights) = 0 THEN <<>> ELSE cmd_find_gaps_from(heights, 1, heights[1])

cmd_find_gaps(heights) ==
    IF Len(heights) = 0 THEN <<>> ELSE cmd_find_gaps_from(heights, 1, heights[1] - 1)


(***************************************************************************)
(* Input files of the model.  The data file is a fixed log of records      *)
(* [uvarint length][payload]; the index file is a sequence of at most      *)
(* MaxEntries 8-byte little-endian offsets drawn from IndexEntries.        *)
(***************************************************************************)
RECURSIVE LE(_, _)
LE(v, n) == IF n = 0 THEN <<>> ELSE <<v % 256>> \o LE(v \div 256, n - 1)

RECURSIVE uvarint_encode(_)
uvarint_encode(v) ==
    IF v < 128 THEN <<v>> ELSE <<128 + (v % 128)>> \o uvarint_encode(v \div 128)

Fill(n) == [i \in 1..n |-> 255]

Record(payload) == uvarint_encode(Len(payload)) \o payload

\* block record whose height sits in the window 16 bytes before the end
BlockPayload(h) == <<0, 0, 2>> \o Fill(5) \o LE(h, 8) \o Fill(8)

DataRecords == <<
    Record(BlockPayload(10)),
    Record(BlockPayload(13)),
    \* windows from the end: filler, 100000000, 0, 99999999
    Record(<<0, 0, 2>> \o Fill(5) \o LE(MAX_BLOCK_HEIGHT - 1, 8) \o LE(0, 8)
             \o LE(MAX_BLOCK_HEIGHT, 8) \o Fill(8)),
    \* plausible value 12 only in the final 8 bytes
    Record(<<0, 0, 2>> \o Fill(13) \o LE(12, 8)),
    \* encoder kind 3 with a plausible trailing value
    Record(<<0, 0, 3>> \o Fill(5) \o LE(14, 8) \o Fill(8)),
    \* two-byte operation kind (128), block of height 17
    Record(<<128, 1, 0, 2>> \o Fill(4) \o LE(17, 8) \o Fill(8)),
    \* payload of two bytes: no header
    Record(<<0, 2>>),
    \* encoder kind 0 with a plausible trailing value
    Record(<<0, 0, 0>> \o Fill(5) \o LE(15, 8) \o Fill(8)),
    \* length prefix 10 MiB + 1
    uvarint_encode(MAX_ENTRY_LENGTH + 1),
    \* length 5 with two bytes left, then an unterminated varint at the end
    <<5, 170, 128>>
>>

RECURSIVE Concat(_, _)
Concat(seqs, k) == IF k > Len(seqs) THEN <<>> ELSE seqs[k] \o Concat(seqs, k + 1)

DataFile == Concat(DataRecords, 1)

RECURSIVE RecordOffset(_)
RecordOffset(k) == IF k = 1 THEN 0 ELSE RecordOffset(k - 1) + Len(DataRecords[k - 1])

IndexEntries ==
    { LE(RecordOffset(k), 8) : k \in 1..Len(DataRecords) }
    \cup { LE(Len(DataFile) - 1, 8),          \* the unterminated varint
           LE(Len(DataFile) + 2, 8),          \* past the end of the data file
           <<0, 0, 0, 0, 0, 16, 0, 0>>,       \* 2^44: sought to on tmpfs only
           <<0, 0, 0, 0, 0, 0, 0, 128>> }     \* 2^63

RECURSIVE SeqsUpTo(_, _)
SeqsUpTo(S, n) ==
    IF n = 0 THEN {<<>>}
    ELSE LET shorter == SeqsUpTo(S, n - 1)
         IN  shorter \cup { s \o e : s \in { t \in shorter : Len(t) = 8 * (n - 1) }, e \in S }

\* a partial entry of 1 or 7 bytes after the last whole entry
IndexTails == {<<1>>, <<1, 2, 3, 4, 5, 6, 128>>}

WholeIndexFiles == SeqsUpTo(IndexEntries, MaxEntries)

IndexFiles ==
    WholeIndexFiles
    \cup { f \o t : f \in { g \in WholeIndexFiles : Len(g) < 8 * MaxEntries },
                    t \in IndexTails }

\* the file systems the data file may lie on
FileSystems == {"ext4", "tmpfs"}

(***************************************************************************)
(* State.                                                                  *)
(***************************************************************************)
VARIABLES
    impl,                 \* which script runs: "tools" or "cmd"
    file_system,          \* file system holding the data file: "ext4", "tmpfs"
    index_exists,         \* os.path.exists(index_path)
    data_exists,          \* os.path.exists(data_path)
    index_file,           \* bytes of state-changes-index.bin
    data_file,            \* bytes of state-changes.bin
    pc,                   \* "start", "scan", "report", "done", "aborted"
    total_entries,
    entry_idx,            \* next ordinal of the for loop
    block_heights,        \* height -> entry_idx
    encoder_types_count,  \* encoder type -> count
    max_height,
    min_height,
    block_count,
    parse_errors,
    expected,
    missing_count,
    gaps,
    total_missing,
    output,               \* the report lines printed so far, by kind
    result,               \* return value: "unset", "True", "False", "None", "raised"
    inp,                  \* input of the function under test
    out                   \* its result

scan_vars == <<impl, file_system, index_exists, data_exists, index_file, data_file, pc,
               total_entries, entry_idx, block_heights, encoder_types_count,
               max_height, min_height, block_count, parse_errors, expected,
               missing_count, gaps, total_missing, output, result>>

vars == <<scan_vars, inp, out>>

\* the locals analyze_state_changes starts the loop with
ScanLocals ==
    /\ total_entries = 0
    /\ entry_idx = 0
    /\ block_heights = <<>>
    /\ encoder_types_count = <<>>
    /\ max_height = 0
    /\ min_height = inf
    /\ block_count = 0
    /\ parse_errors = 0
    /\ expected = None
    /\ missing_count = None
    /\ gaps = None
    /\ total_missing = None
    /\ output = <<>>
    /\ result = "unset"

Init ==
    /\ impl \in {"tools", "cmd"}
    /\ file_system \in FileSystems
    /\ \/ /\ index_exists = TRUE /\ data_exists = TRUE
          /\ index_file \in IndexFiles
          /\ data_file = DataFile
       \/ /\ index_exists = FALSE /\ data_exists \in BOOLEAN
          /\ index_file = <<>>
          /\ data_file = IF data_exists THEN DataFile ELSE <<>>
       \/ /\ index_exists = TRUE /\ data_exists = FALSE
          /\ index_file \in {f \in IndexFiles : Len(f) <= INDEX_ENTRY_SIZE}
          /\ data_file = <<>>
    /\ pc = "start"
    /\ ScanLocals
    /\ inp = <<>>
    /\ out = <<>>


(***************************************************************************)
(* One pass of the loop body up to the parse: what the ordinal entry_idx   *)
(* yields.  kind is "skip" (a continue), "raise" (an exception left the    *)
(* body) or "parsed" (encoder_type and block_height are those of the       *)
(* entry, None when absent).                                               *)
(***************************************************************************)
Skipped == [kind |-> "skip",  encoder_type |-> None, block_height |-> None]
Raised  == [kind |-> "raise", encoder_type |-> None, block_height |-> None]
Parsed(p) == [kind |-> "parsed", encoder_type |-> p.encoder_type,
              block_height |-> p.block_height]

\* the largest offset a seek is accepted for, as 8 little-endian bytes:
\* 2^44 - 4096 on ext4 (blocks of 4 KiB), 2^63 - 1 on tmpfs
EXT4_MAX_SEEK_OFFSET == <<0, 240, 255, 255, 255, 15, 0, 0>>
TMPFS_MAX_SEEK_OFFSET == <<255, 255, 255, 255, 255, 255, 255, 127>>

max_seek_offset(fs) ==
    IF fs = "ext4" THEN EXT4_MAX_SEEK_OFFSET ELSE TMPFS_MAX_SEEK_OFFSET

\* the largest position a read of the buffered file is accepted at:
\* 2^63 - 4097, one buffer of 4096 bytes short of 2^63
MAX_READ_OFFSET == <<255, 239, 255, 255, 255, 255, 255, 127>>

\* a > b for unsigned little-endian byte strings of length n
RECURSIVE le_greater(_, _, _)
le_greater(a, b, n) ==
    IF n = 0 THEN FALSE
    ELSE IF a[n] # b[n] THEN a[n] > b[n]
    ELSE le_greater(a, b, n - 1)

\* data_file.seek(db_index): an offset of 2^63 or more does not fit off_t
\* and raises ValueError; an offset beyond the largest one the file system
\* of the data file accepts raises OSError (EINVAL); up to that offset the
\* seek succeeds
seek_raises(index_bytes) ==
    \/ exceeds_off_t(index_bytes)
    \/ le_greater(index_bytes, max_seek_offset(file_system), INDEX_ENTRY_SIZE)

\* f.read(1) of read_uvarint after a seek that succeeded: within one
\* buffer of 2^63 the read raises OSError (EINVAL)
read_raises(index_bytes) ==
    le_greater(index_bytes, MAX_READ_OFFSET, INDEX_ENTRY_SIZE)

\* if entry_length is None or entry_length > 10 * 1024 * 1024: the length
\* test of tools, with >= in place of >
oversize_inclusive(entry_length) == entry_length >= MAX_ENTRY_LENGTH

\* the length ceiling of tools/analyze_state_changes.py
oversize(entry_length) == entry_length > MAX_ENTRY_LENGTH

Fetched(why, bytes) == [why |-> why, bytes |-> bytes]

\* tools with the payload read from the start of the length prefix
tools_fetch_from_prefix(idx_file, dat_file, i) ==
    LET index_bytes == FileRead(idx_file, i * INDEX_ENTRY_SIZE, INDEX_ENTRY_SIZE)
        db_index     == unpack_Q(index_bytes)
        entry_length == read_uvarint(dat_file, db_index)
    IN  IF Len(index_bytes) # INDEX_ENTRY_SIZE THEN Fetched("no_entry", <<>>)
        ELSE IF ~entry_length.ok THEN Fetched("no_length", <<>>)
        ELSE Fetched("ok", FileRead(dat_file, db_index, entry_length.value))

\* tools/analyze_state_changes.py, body of the try block up to the parse:
\* the payload obtained for ordinal i, or why there is none
tools_fetch(idx_file, dat_file, i) ==
    LET index_bytes == FileRead(idx_file, i * INDEX_ENTRY_SIZE, INDEX_ENTRY_SIZE)
    IN  IF Len(index_bytes) # INDEX_ENTRY_SIZE THEN Fetched("no_entry", <<>>)
        ELSE IF seek_raises(index_bytes) THEN Fetched("raise", <<>>)
        ELSE IF read_raises(index_bytes) THEN Fetched("raise", <<>>)
        ELSE LET db_index     == unpack_Q(index_bytes)
                 entry_length == read_uvarint(dat_file, db_index)
             IN  IF ~entry_length.ok THEN Fetched("no_length", <<>>)
                 ELSE IF oversize(entry_length.value) THEN Fetched("oversize", <<>>)
                 ELSE LET entry_bytes ==
                              FileRead(dat_file, entry_length.pos, entry_length.value)
                      IN  IF Len(entry_bytes) # entry_length.value
                          THEN Fetched("short", <<>>)
                          ELSE Fetched("ok", entry_bytes)

tools_read_entry(idx_file, dat_file, i) ==
    LET f == tools_fetch(idx_file, dat_file, i)
    IN  IF f.why = "ok" THEN Parsed(parse_state_change_entry(f.bytes))
        ELSE IF f.why = "raise" THEN Raised
        ELSE Skipped

(***************************************************************************)
(* The same loop body with the positions of the two open files made        *)
(* explicit: cur.index and cur.data are the positions the files are at     *)
(* when the iteration starts, the result holds the positions it leaves.    *)
(***************************************************************************)
\* f.seek(target) with the target ignored: the file stays where it is
seek_ignored(position, target) == position

\* f.seek(target): the new position is the target, wherever the file was
seek(position, target) == target

tools_step(idx_file, dat_file, i, cur) ==
    LET index_at    == seek(cur.index, i * INDEX_ENTRY_SIZE)
        index_bytes == FileRead(idx_file, index_at, INDEX_ENTRY_SIZE)
        index_end   == index_at + Len(index_bytes)
    IN  IF Len(index_bytes) # INDEX_ENTRY_SIZE
        THEN [outcome |-> Skipped, index |-> index_end, data |-> cur.data]
        ELSE IF seek_raises(index_bytes)
        THEN [outcome |-> Raised, index |-> index_end, data |-> cur.data]
        ELSE LET data_at      == seek(cur.data, unpack_Q(index_bytes))
                 entry_length == read_uvarint(dat_file, data_at)
             IN  IF read_raises(index_bytes)
                 THEN [outcome |-> Raised, index |-> index_end, data |-> data_at]
                 ELSE IF ~entry_length.ok \/ oversize(entry_length.value)
                 THEN [outcome |-> Skipped, index |-> index_end,
                       data |-> entry_length.pos]
                 ELSE LET entry_bytes ==
                              FileRead(dat_file, entry_length.pos, entry_length.value)
                          data_end == entry_length.pos + Len(entry_bytes)
                      IN  [outcome |->
                              IF Len(entry_bytes) # entry_length.value THEN Skipped
                              ELSE Parsed(parse_state_change_entry(entry_bytes)),
                           index |-> index_end, data |-> data_end]

\* data_file.read(entry_length) in cmd: no ceiling is applied before the
\* read.  More than 2^63-1 bytes raises OverflowError; a request of BIG
\* bytes or more may raise MemoryError or return what is left of the file.
cmd_read_outcomes(entry_length) ==
    IF entry_length.bits > 63 THEN {"raise"}
    ELSE IF entry_length.value >= BIG THEN {"raise", "read"}
    ELSE {"read"}

\* cmd/analyze_state_changes/analyze.py, loop body up to the payload read;
\* read_outcome is the outcome of data_file.read
cmd_fetch(idx_file, dat_file, i, read_outcome) ==
    LET index_bytes == FileRead(idx_file, i * INDEX_ENTRY_SIZE, INDEX_ENTRY_SIZE)
    IN  IF Len(index_bytes) # INDEX_ENTRY_SIZE THEN Fetched("no_entry", <<>>)
        ELSE IF seek_raises(index_bytes) THEN Fetched("raise", <<>>)
        ELSE IF read_raises(index_bytes) THEN Fetched("raise", <<>>)
        ELSE LET db_index     == unpack_Q(index_bytes)
                 entry_length == read_uvarint(dat_file, db_index)
             IN  IF ~entry_length.ok THEN Fetched("no_length", <<>>)
                 ELSE IF read_outcome = "raise" THEN Fetched("raise", <<>>)
                 ELSE LET entry_bytes ==
                              FileRead(dat_file, entry_length.pos, entry_length.value)
                      IN  IF Len(entry_bytes) # entry_length.value
                          THEN Fetched("short", <<>>)
                          ELSE Fetched("ok", entry_bytes)

\* cmd/analyze_state_changes/analyze.py, loop body up to the block test
cmd_read_entry(idx_file, dat_file, i, read_outcome) ==
    LET f == cmd_fetch(idx_file, dat_file, i, read_outcome)
    IN  IF f.why = "raise" THEN Raised
        ELSE IF f.why # "ok" THEN Skipped
        ELSE IF Len(f.bytes) < MIN_PARSE_LENGTH THEN Skipped
        ELSE Parsed(cmd_parse_entry(f.bytes))

\* the outcomes data_file.read can have for ordinal i in cmd
cmd_outcomes_at(idx_file, dat_file, i) ==
    LET index_bytes == FileRead(idx_file, i * INDEX_ENTRY_SIZE, INDEX_ENTRY_SIZE)
    IN  IF \/ Len(index_bytes) # INDEX_ENTRY_SIZE
           \/ seek_raises(index_bytes) \/ read_raises(index_bytes)
        THEN {"read"}
        ELSE LET entry_length == read_uvarint(dat_file, unpack_Q(index_bytes))
             IN  IF entry_length.ok THEN cmd_read_outcomes(entry_length) ELSE {"read"}

(***************************************************************************)
(* Accumulators.                                                           *)
(***************************************************************************)
\* block_heights[block_height] = entry_idx
observe_first_wins(heights, block_height, idx) ==
    [h \in DOMAIN heights \cup {block_height} |->
        IF h \in DOMAIN heights THEN heights[h] ELSE idx]

\* block_heights = {block_height: entry_idx}: the map is replaced
observe_only_latest(heights, block_height, idx) ==
    [h \in {block_height} |-> idx]

observe(heights, block_height, idx) ==
    [h \in DOMAIN heights \cup {block_height} |->
        IF h = block_height THEN idx ELSE heights[h]]

\* encoder_types_count[encoder_type] += 1 on a defaultdict(int)
count_type_by_two(counts, encoder_type) ==
    [t \in DOMAIN counts \cup {encoder_type} |->
        IF t = encoder_type
        THEN (IF t \in DOMAIN counts THEN counts[t] ELSE 0) + 2
        ELSE counts[t]]

count_type(counts, encoder_type) ==
    [t \in DOMAIN counts \cup {encoder_type} |->
        IF t = encoder_type
        THEN (IF t \in DOMAIN counts THEN counts[t] ELSE 0) + 1
        ELSE counts[t]]

\* tools, second check in the loop: if 0 < block_height < 100000000
sane_height(block_height) == 0 < block_height /\ block_height < MAX_BLOCK_HEIGHT

\* tools: if encoder_type == 2 and block_height is not None, then the
\* second check
tools_accepts(r) ==
    /\ r.kind = "parsed"
    /\ r.encoder_type = ENCODER_TYPE_BLOCK
    /\ r.block_height # None
    /\ sane_height(r.block_height)

\* cmd: the window loop records the height where it finds it
cmd_accepts(r) ==
    /\ r.kind = "parsed"
    /\ r.block_height # None

\* expected = max_height - min_height + 1
expected_count(maxh, minh) == maxh - minh + 1

\* missing_count = expected - block_count
missing_blocks(exp, count) == exp - count

RECURSIVE sum_gaps(_, _)
sum_gaps(gs, k) ==
    IF k > Len(gs) THEN 0 ELSE (gs[k][2] - gs[k][1] + 1) + sum_gaps(gs, k + 1)

\* the gap report with the total taken over the displayed gaps only
gap_report_shown_only(gs) ==
    LET shown == SubSeq(gs, 1, Min2(Len(gs), GAP_DISPLAY_CAP))
    IN  [found |-> Len(gs),
         shown |-> shown,
         more  |-> IF Len(gs) > GAP_DISPLAY_CAP THEN Len(gs) - GAP_DISPLAY_CAP ELSE 0,
         total_missing |-> IF Len(gs) = 0 THEN None ELSE sum_gaps(shown, 1)]

\* "Found n gap(s)", the lines of gaps[:50], the "... and n more gaps" line
\* and "Total missing from gaps"; without a gap total_missing is never
\* assigned
gap_report(gs) ==
    LET shown == SubSeq(gs, 1, Min2(Len(gs), GAP_DISPLAY_CAP))
        remaining_missing ==
            IF Len(gs) > GAP_DISPLAY_CAP
            THEN sum_gaps(SubSeq(gs, GAP_DISPLAY_CAP + 1, Len(gs)), 1)
            ELSE 0
    IN  [found |-> Len(gs),
         shown |-> shown,
         more  |-> IF Len(gs) > GAP_DISPLAY_CAP THEN Len(gs) - GAP_DISPLAY_CAP ELSE 0,
         total_missing |-> IF Len(gs) = 0 THEN None
                           ELSE sum_gaps(shown, 1) + remaining_missing]

\* os.path.exists on both paths
files_present_index_only(ie, de) == ie

files_present(ie, de) == ie /\ de

\* if block_count == 0: the report stops at "No blocks found"
no_blocks_never(count) == count < 0

no_blocks(count) == count = 0

\* the boolean handed to the operating system as it is: True exits with 1
exit_status_of_bool(success) == IF success = "True" THEN 1 ELSE 0

\* __main__ of the tools script: sys.exit(0 if success else 1)
exit_status(success) == IF success = "True" THEN 0 ELSE 1

(***************************************************************************)
(* Actions.                                                                *)
(***************************************************************************)
\* the existence checks, getsize and the opening of the files
\* total_entries = index_size // 8, rounded up instead of down
entry_count_rounded_up(index_size) ==
    (index_size + INDEX_ENTRY_SIZE - 1) \div INDEX_ENTRY_SIZE

\* total_entries = index_size // 8
entry_count(index_size) == index_size \div INDEX_ENTRY_SIZE

Start ==
    /\ pc = "start"
    /\ IF files_present(index_exists, data_exists)
       THEN /\ total_entries' = entry_count(Len(index_file))
            /\ pc' = "scan"
            /\ UNCHANGED <<output, result>>
       ELSE /\ output' = Append(output, IF ~index_exists THEN "index_not_found"
                                                          ELSE "data_not_found")
            /\ result' = IF impl = "tools" THEN "False" ELSE "None"
            /\ pc' = "done"
            /\ UNCHANGED total_entries
    /\ UNCHANGED <<impl, file_system, index_exists, data_exists, index_file, data_file,
                   entry_idx, block_heights, encoder_types_count, max_height,
                   min_height, block_count, parse_errors, expected,
                   missing_count, gaps, total_missing, inp, out>>

\* the loop variable kept at the same ordinal
next_ordinal_stuck(idx) == idx

\* for entry_idx in range(total_entries): the ordinal after idx
next_ordinal(idx) == idx + 1

\* the updates both scripts make for an entry whose height is recorded
Accumulate(r, accepted) ==
    IF accepted
    THEN /\ block_heights' = observe(block_heights, r.block_height, entry_idx)
         /\ block_count' = block_count + 1
         /\ max_height' = IF r.block_height > max_height
                          THEN r.block_height ELSE max_height
         /\ min_height' = IF r.block_height < min_height
                          THEN r.block_height ELSE min_height
    ELSE UNCHANGED <<block_heights, block_count, max_height, min_height>>

\* one iteration of the for loop of tools/analyze_state_changes.py
ScanEntryTools ==
    /\ pc = "scan" /\ impl = "tools" /\ entry_idx < total_entries
    /\ LET r == tools_read_entry(index_file, data_file, entry_idx)
       IN  /\ parse_errors' = IF r.kind = "raise" THEN parse_errors + 1
                              ELSE parse_errors
           /\ encoder_types_count' =
                 IF r.kind = "parsed" /\ r.encoder_type # None
                 THEN count_type(encoder_types_count, r.encoder_type)
                 ELSE encoder_types_count
           /\ Accumulate(r, tools_accepts(r))
    /\ entry_idx' = next_ordinal(entry_idx)
    /\ UNCHANGED <<impl, file_system, index_exists, data_exists, index_file, data_file, pc,
                   total_entries, expected, missing_count, gaps, total_missing,
                   output, result, inp, out>>

\* one iteration of the for loop of cmd/analyze_state_changes/analyze.py:
\* nothing catches an exception, it ends the run
ScanEntryCmd ==
    /\ pc = "scan" /\ impl = "cmd" /\ entry_idx < total_entries
    /\ \E read_outcome \in cmd_outcomes_at(index_file, data_file, entry_idx) :
         LET r == cmd_read_entry(index_file, data_file, entry_idx, read_outcome)
         IN  IF r.kind = "raise"
             THEN /\ pc' = "aborted"
                  /\ result' = "raised"
                  /\ UNCHANGED <<entry_idx, block_heights, block_count,
                                 max_height, min_height>>
             ELSE /\ Accumulate(r, cmd_accepts(r))
                  /\ entry_idx' = next_ordinal(entry_idx)
                  /\ UNCHANGED <<pc, result>>
    /\ UNCHANGED <<impl, file_system, index_exists, data_exists, index_file, data_file,
                   total_entries, encoder_types_count, parse_errors, expected,
                   missing_count, gaps, total_missing, output, inp, out>>

\* the report of tools/analyze_state_changes.py after the loop
ReportTools ==
    /\ pc = "scan" /\ impl = "tools" /\ entry_idx = total_entries
    /\ LET types_line == <<"entry_types">>
           critical   == IF (IF 0 \in DOMAIN encoder_types_count
                             THEN encoder_types_count[0] ELSE 0) = total_entries
                         THEN <<"critical_type_0">> ELSE <<>>
           heights    == sorted(DOMAIN block_heights)
           exp        == expected_count(max_height, min_height)
           gs         == find_gaps(heights)
       IN  IF no_blocks(block_count)
           THEN /\ output' = output \o types_line \o critical \o <<"no_blocks">>
                /\ result' = "False"
                /\ UNCHANGED <<expected, missing_count, gaps, total_missing>>
           ELSE /\ expected' = exp
                /\ missing_count' = missing_blocks(exp, block_count)
                /\ gaps' = gs
                /\ total_missing' = gap_report(gs).total_missing
                /\ output' = output \o types_line \o critical
                                \o <<"total_blocks", "min_max", "expected_missing">>
                                \o (IF gs = <<>> THEN <<"no_gaps">> ELSE <<"gaps">>)
                                \o <<"recent_blocks", "complete">>
                /\ result' = "True"
    /\ pc' = "done"
    /\ UNCHANGED <<impl, file_system, index_exists, data_exists, index_file, data_file,
                   total_entries, entry_idx, block_heights, encoder_types_count,
                   max_height, min_height, block_count, parse_errors, inp, out>>

\* the report of cmd/analyze_state_changes/analyze.py after the loop
ReportCmd ==
    /\ pc = "scan" /\ impl = "cmd" /\ entry_idx = total_entries
    /\ LET heights == sorted(DOMAIN block_heights)
           exp     == expected_count(max_height, min_height)
           gs      == cmd_find_gaps(heights)
       IN  IF block_count > 0
           THEN /\ expected' = exp
                /\ missing_count' = missing_blocks(exp, block_count)
                /\ gaps' = gs
                /\ output' = output \o <<"total_blocks", "min_max", "expected_missing">>
                                \o (IF gs = <<>> THEN <<"no_gaps">> ELSE <<"gaps">>)
                                \o <<"recent_blocks">>
           ELSE /\ output' = output \o <<"total_blocks", "no_blocks">>
                /\ UNCHANGED <<expected, missing_count, gaps>>
    /\ result' = "None"
    /\ pc' = "done"
    /\ UNCHANGED <<impl, file_system, index_exists, data_exists, index_file, data_file,
                   total_entries, entry_idx, block_heights, encoder_types_count,
                   max_height, min_height, block_count, parse_errors,
                   total_missing, inp, out>>

Next == Start \/ ScanEntryTools \/ ScanEntryCmd \/ ReportTools \/ ReportCmd

Spec == Init /\ [][Next]_vars


(***************************************************************************)
(* Specification of the two gap loops alone: the input is a non-empty set  *)
(* of observed heights (the keys of block_heights), the actions apply      *)
(* sorted() and one of the loops to it.  The scan itself does not run.     *)
(***************************************************************************)
NoFiles ==
    /\ impl = "none"
    /\ index_exists = FALSE /\ data_exists = FALSE
    /\ index_file = <<>> /\ data_file = <<>>
    /\ pc = "idle"
    /\ ScanLocals

NoScan ==
    /\ NoFiles
    /\ file_system = "none"

\* height sets with about GAP_DISPLAY_CAP gaps: every s-th height, and a run
\* of gaps of one height, a wide gap and a run of gaps of four heights
ManyGapSets ==
    { { HeightBase + s * k : k \in 0..n } :
         s \in {2, 3}, n \in (GAP_DISPLAY_CAP - 1)..(GAP_DISPLAY_CAP + 3) }
    \cup { { HeightBase + 2 * k : k \in 0..40 }
             \cup { HeightBase + 100 + 5 * k : k \in 0..20 } }

HeightSets ==
    ((SUBSET (HeightBase..(HeightBase + HeightSpan))) \ {{}})
    \cup { {10, 11, 13, 14, 17}, {42} }
    \cup ManyGapSets

InitGaps ==
    /\ NoScan
    /\ inp \in HeightSets
    /\ out = <<>>

GapsTools ==
    /\ pc = "idle" /\ out = <<>>
    /\ out' = [by |-> "tools", gaps |-> find_gaps(sorted(inp))]
    /\ UNCHANGED <<scan_vars, inp>>

GapsCmd ==
    /\ pc = "idle" /\ out = <<>>
    /\ out' = [by |-> "cmd", gaps |-> cmd_find_gaps(sorted(inp))]
    /\ UNCHANGED <<scan_vars, inp>>

\* the gap analysis printed by tools (lines 272-300)
GapsReport ==
    /\ pc = "idle" /\ out = <<>>
    /\ LET gs == find_gaps(sorted(inp))
           rep == gap_report(gs)
       IN  out' = [by |-> "report", gaps |-> gs, found |-> rep.found,
                   shown |-> rep.shown, more |-> rep.more,
                   total_missing |-> rep.total_missing]
    /\ UNCHANGED <<scan_vars, inp>>

NextGaps == GapsTools \/ GapsCmd \/ GapsReport

SpecGaps == InitGaps /\ [][NextGaps]_vars

(***************************************************************************)
(* Specification of the entry parsers alone: the input is a payload built  *)
(* from its parts, [uvarint op][rev][uvarint enc][pad filler bytes]        *)
(* followed by 8-byte windows; wins[j] is the window that ends 8*(j-1)     *)
(* bytes before the end of the payload.  A window value of BIG stands for  *)
(* eight 255 bytes.                                                        *)
(***************************************************************************)
WindowBytes(v) == IF v >= BIG THEN Fill(8) ELSE LE(v, 8)

RECURSIVE WindowsBytes(_, _)
WindowsBytes(wins, j) ==
    IF j = 0 THEN <<>> ELSE WindowBytes(wins[j]) \o WindowsBytes(wins, j - 1)

Payload(p) ==
    uvarint_encode(p.op) \o <<p.rev>> \o uvarint_encode(p.enc)
        \o Fill(p.pad) \o WindowsBytes(p.wins, Len(p.wins))

WindowValues == {0, 7, MAX_BLOCK_HEIGHT - 1, MAX_BLOCK_HEIGHT}

RECURSIVE WindowSeqs(_)
WindowSeqs(n) ==
    IF n = 0 THEN {<<>>}
    ELSE LET shorter == WindowSeqs(n - 1)
         IN  shorter \cup { Append(w, v) : w \in { t \in shorter : Len(t) = n - 1 },
                                           v \in WindowValues }

ParseInputs ==
    \* block entries with every choice of windows
    { [op |-> 0, rev |-> 0, enc |-> ENCODER_TYPE_BLOCK, pad |-> pad, wins |-> w] :
         pad \in {0, 5}, w \in WindowSeqs(MaxWindows) }
    \cup
    \* headers with one- and two-byte fields, with and without a body
    { [op |-> op, rev |-> rev, enc |-> enc, pad |-> 5 * Len(w), wins |-> w] :
         op \in {0, 1, 128, 300, 32768}, rev \in {0, 1}, enc \in {0, 2, 3, 130, 258},
         w \in {<<>>, <<BIG, 7, BIG>>} }
    \cup
    \* block entries of 20, 21 and 23 bytes
    { [op |-> 0, rev |-> 0, enc |-> ENCODER_TYPE_BLOCK, pad |-> pad, wins |-> w] :
         pad \in {1, 2, 4}, w \in {<<BIG, 7>>, <<7, BIG>>} }

InitParse ==
    /\ NoScan
    /\ inp \in ParseInputs
    /\ out = <<>>

ParseTools ==
    /\ pc = "idle" /\ out = <<>>
    /\ out' = [by |-> "tools", r |-> parse_state_change_entry(Payload(inp))]
    /\ UNCHANGED <<scan_vars, inp>>

ParseCmd ==
    /\ pc = "idle" /\ out = <<>>
    /\ out' = [by |-> "cmd", r |-> cmd_parse_entry(Payload(inp))]
    /\ UNCHANGED <<scan_vars, inp>>

NextParse == ParseTools \/ ParseCmd

SpecParse == InitParse /\ [][NextParse]_vars


(***************************************************************************)
(* Specification of the decoders alone.  The input is a byte sequence:     *)
(* either raw bytes (v = None), or the encoding of a value v followed by   *)
(* other bytes (n is the length of the encoding).  The actions apply the   *)
(* two varint decoders from position 0 and the two header parsers.         *)
(***************************************************************************)
RawBytes == {0, 2, 127, 128, 130, 255}

RECURSIVE RawSeqs(_)
RawSeqs(n) ==
    IF n = 0 THEN {<<>>}
    ELSE LET shorter == RawSeqs(n - 1)
         IN  shorter \cup { Append(t, b) : t \in { u \in shorter : Len(u) = n - 1 },
                                           b \in RawBytes }

\* values with encodings of one to five bytes
VarintSamples ==
    {0, 1, 2, 127, 128, 129, 300, 16383, 16384, 2097151, 2097152,
     MAX_ENTRY_LENGTH, MAX_ENTRY_LENGTH + 1, 268435455, 268435456, BIG - 1}

VarintTails == {<<>>, <<0>>, <<128>>, <<255, 1>>, <<2, 128, 0>>}

\* varints of ten and eleven bytes: 2^64 - 1, and values of 65, 71 and 77
\* bits
LongVarints ==
    { Fill(9) \o <<1>>, Fill(9) \o <<2>>, [k \in 1..10 |-> 128] \o <<1>>,
      Fill(10) \o <<127>> }

CodecInputs ==
    { [bytes |-> b, v |-> None, n |-> 0] : b \in RawSeqs(MaxRawLen) \cup LongVarints }
    \cup
    { [bytes |-> uvarint_encode(v) \o t, v |-> v, n |-> Len(uvarint_encode(v))] :
         v \in VarintSamples, t \in VarintTails }

InitCodec ==
    /\ NoScan
    /\ inp \in CodecInputs
    /\ out = <<>>

\* read_uvarint on a stream positioned at the start of the bytes
DecodeStream ==
    /\ pc = "idle" /\ out = <<>>
    /\ LET r == read_uvarint(inp.bytes, 0)
       IN  out' = [by |-> "stream", returned |-> r.ok, value |-> r.value,
                   pos |-> r.pos, bits |-> r.bits]
    /\ UNCHANGED <<scan_vars, inp>>

\* read_uvarint_from_bytes(data, 0): always returns a pair
DecodeSlice ==
    /\ pc = "idle" /\ out = <<>>
    /\ LET r == read_uvarint_from_bytes(inp.bytes, 0)
       IN  out' = [by |-> "slice", returned |-> TRUE, value |-> r.value, pos |-> r.pos]
    /\ UNCHANGED <<scan_vars, inp>>

HeaderTools ==
    /\ pc = "idle" /\ out = <<>>
    /\ out' = [by |-> "tools", r |-> parse_state_change_entry(inp.bytes)]
    /\ UNCHANGED <<scan_vars, inp>>

\* cmd skips an entry of fewer than 3 bytes before it looks at the header
HeaderCmd ==
    /\ pc = "idle" /\ out = <<>>
    /\ out' = [by |-> "cmd", r |-> cmd_parse_entry(inp.bytes)]
    /\ UNCHANGED <<scan_vars, inp>>

NextCodec == DecodeStream \/ DecodeSlice \/ HeaderTools \/ HeaderCmd

SpecCodec == InitCodec /\ [][NextCodec]_vars

(***************************************************************************)
(* Specification of the record fetch alone.  The input is an index file,   *)
(* an ordinal and a data file.  Either the data file holds a whole record  *)
(* at the offset the index entry gives (payload is its payload), or it     *)
(* holds a bare length prefix with a few bytes after it (whole = FALSE;    *)
(* length is the value of the prefix, BIG when it is BIG or more).         *)
(***************************************************************************)
RecordPayloads ==
    {<<>>, <<7>>, <<0, 0, 2>>, <<128, 255, 0>>, BlockPayload(HeightBase), Fill(130)}

RecordBefores == {<<>>, <<128>>, <<255, 255, 1>>, Record(<<9, 9>>)}

RecordAfters == {<<>>, <<0>>, <<128, 128>>, Record(<<1>>)}

\* index files whose entry at the given ordinal holds offset
IndexesTo(offset) ==
    { [index |-> LE(offset, INDEX_ENTRY_SIZE), ordinal |-> 0],
      [index |-> LE(0, INDEX_ENTRY_SIZE) \o LE(offset, INDEX_ENTRY_SIZE) \o <<1, 2, 3>>,
       ordinal |-> 1] }

\* length prefixes around the ceiling, and two that exceed any file
LengthPrefixes ==
    { [bytes |-> uvarint_encode(n), length |-> n] :
         n \in {MAX_ENTRY_LENGTH - 1, MAX_ENTRY_LENGTH, MAX_ENTRY_LENGTH + 1, BIG - 1} }
    \cup
    { [bytes |-> <<255, 255, 255, 255, 255, 127>>, length |-> BIG],
      [bytes |-> <<255, 255, 255, 255, 255, 255, 255, 255, 255, 127>>, length |-> BIG] }

RecordInputsAfter(b) ==
    { [index |-> ix.index, ordinal |-> ix.ordinal,
       file |-> b \o Record(p) \o a, whole |-> TRUE,
       payload |-> p, length |-> Len(p)] :
         ix \in IndexesTo(Len(b)), p \in RecordPayloads, a \in RecordAfters }
    \cup
    { [index |-> ix.index, ordinal |-> ix.ordinal,
       file |-> b \o l.bytes \o a, whole |-> FALSE,
       payload |-> <<>>, length |-> l.length] :
         ix \in IndexesTo(Len(b)), l \in LengthPrefixes, a \in {<<>>, <<0, 0, 2>>} }

\* offsets of 2^44, 2^63 - 4096 and 2^63 - 1 into a file of one record
FarRecordInputs ==
    { [index |-> ix, ordinal |-> 0, file |-> Record(<<0, 0, 2>>),
       whole |-> FALSE, payload |-> <<>>, length |-> 0] :
         ix \in { <<0, 0, 0, 0, 0, 16, 0, 0>>,
                  <<0, 240, 255, 255, 255, 255, 255, 127>>,
                  <<255, 255, 255, 255, 255, 255, 255, 127>> } }

RecordInputs ==
    UNION { RecordInputsAfter(b) : b \in RecordBefores } \cup FarRecordInputs

InitRecord ==
    /\ NoFiles
    /\ file_system \in FileSystems
    /\ inp \in RecordInputs
    /\ out = <<>>

FetchTools ==
    /\ pc = "idle" /\ out = <<>>
    /\ LET f == tools_fetch(inp.index, inp.file, inp.ordinal)
       IN  out' = [by |-> "tools", why |-> f.why, bytes |-> f.bytes]
    /\ UNCHANGED <<scan_vars, inp>>

FetchCmd ==
    /\ pc = "idle" /\ out = <<>>
    /\ \E o \in cmd_outcomes_at(inp.index, inp.file, inp.ordinal) :
          LET f == cmd_fetch(inp.index, inp.file, inp.ordinal, o)
          IN  out' = [by |-> "cmd", why |-> f.why, bytes |-> f.bytes]
    /\ UNCHANGED <<scan_vars, inp>>

NextRecord == FetchTools \/ FetchCmd

SpecRecord == InitRecord /\ [][NextRecord]_vars

(***************************************************************************)
(* Specification of the loop of tools with the ordinals taken in an order  *)
(* given as input: inp is a permutation of 0 .. total_entries - 1, the     *)
(* k-th iteration processes ordinal inp[k], entry_idx counts iterations.   *)
(* out holds the positions of the two files, which stay open across the    *)
(* iterations.                                                             *)
(***************************************************************************)
\* index entries for the orders: two blocks, a record of another kind, an
\* oversize length, a payload cut by the end of the file, an unterminated
\* length, an offset that cannot be sought to
OrderEntries ==
    { LE(RecordOffset(k), 8) : k \in {1, 2, 5, 9, 10} }
    \cup { LE(Len(DataFile) - 1, 8), <<0, 0, 0, 0, 0, 0, 0, 128>> }

OrderIndexFiles == SeqsUpTo(OrderEntries, MaxEntries)

Orders(n) ==
    { p \in [1..n -> 0..(n - 1)] : \A a, b \in 1..n : p[a] = p[b] => a = b }

\* every offset of OrderEntries is below the seek limit of each file system
\* or at least 2^63, so one file system stands for all
InitOrder ==
    /\ impl = "tools"
    /\ file_system = "ext4"
    /\ index_exists = TRUE /\ data_exists = TRUE
    /\ index_file \in OrderIndexFiles
    /\ data_file = DataFile
    /\ pc = "start"
    /\ ScanLocals
    /\ inp \in Orders(entry_count(Len(index_file)))
    /\ out = [index |-> 0, data |-> 0]

ScanEntryInOrder ==
    /\ pc = "scan" /\ impl = "tools" /\ entry_idx < total_entries
    /\ LET i    == inp[entry_idx + 1]
           step == tools_step(index_file, data_file, i, out)
           r    == step.outcome
       IN  /\ parse_errors' = IF r.kind = "raise" THEN parse_errors + 1
                              ELSE parse_errors
           /\ encoder_types_count' =
                 IF r.kind = "parsed" /\ r.encoder_type # None
                 THEN count_type(encoder_types_count, r.encoder_type)
                 ELSE encoder_types_count
           /\ IF tools_accepts(r)
              THEN /\ block_heights' = observe(block_heights, r.block_height, i)
                   /\ block_count' = block_count + 1
                   /\ max_height' = IF r.block_height > max_height
                                    THEN r.block_height ELSE max_height
                   /\ min_height' = IF r.block_height < min_height
                                    THEN r.block_height ELSE min_height
              ELSE UNCHANGED <<block_heights, block_count, max_height, min_height>>
           /\ out' = [index |-> step.index, data |-> step.data]
    /\ entry_idx' = entry_idx + 1
    /\ UNCHANGED <<impl, file_system, index_exists, data_exists, index_file, data_file, pc,
                   total_entries, expected, missing_count, gaps, total_missing,
                   output, result, inp>>

NextOrder == Start \/ ScanEntryInOrder \/ ReportTools

SpecOrder == InitOrder /\ [][NextOrder]_vars

(***************************************************************************)
(* Specification of a run of tools on two files that exist, for            *)
(* termination.  The function is sequential code: whenever a step of it    *)
(* can be taken it is taken, which is weak fairness of each of its three   *)
(* steps.  An iteration of the loop can be taken exactly when an ordinal   *)
(* is left (its body is defined for every entry and catches every          *)
(* exception), and taking it advances entry_idx: the fairness condition of *)
(* the loop is stated on that.                                             *)
(***************************************************************************)
InitTermination ==
    /\ impl = "tools"
    /\ file_system \in FileSystems
    /\ index_exists = TRUE /\ data_exists = TRUE
    /\ index_file \in OrderIndexFiles
                        \cup { f \o t : f \in { g \in OrderIndexFiles :
                                                  Len(g) < 8 * MaxEntries },
                                        t \in IndexTails }
    /\ data_file = DataFile
    /\ pc = "start"
    /\ ScanLocals
    /\ inp = <<>>
    /\ out = <<>>

NextTermination == Start \/ ScanEntryTools \/ ReportTools

LoopAdvances ==
    /\ pc = "scan" /\ entry_idx < total_entries
    /\ entry_idx' = entry_idx + 1

SpecTermination ==
    /\ InitTermination /\ [][NextTermination]_vars
    /\ WF_pc(Start) /\ WF_entry_idx(LoopAdvances) /\ WF_pc(ReportTools)

(***************************************************************************)
(* check_block_sync.py.  Python values are tagged records: None, int, str  *)
(* (the sequence of its characters), dict (a function from key to value),  *)
(* list (a sequence) and a raised exception, which every operation hands   *)
(* on unchanged.                                                           *)
(***************************************************************************)
HTTP_OK == 200
AVG_TXNS_PER_BLOCK == 40

PyNone == [t |-> "none"]
PyInt(n) == [t |-> "int", v |-> n]
PyStr(s) == [t |-> "str", text |-> s]
\* the float pct, held as the integer number of units of 0.0001 it prints as
Percent(n) == [t |-> "percent", e4 |-> n]
PyDict(f) == [t |-> "dict", items |-> f]
PyList(s) == [t |-> "list", elems |-> s]
PyRaise(e) == [t |-> "raise", exc |-> e]

EmptyDict == PyDict(<<>>)
EmptyStr == PyStr(<<>>)

\* the characters of "error", "an error", "7" and of a text without "error"
ErrorWord == <<"e", "r", "r", "o", "r">>
AnErrorText == <<"a", "n", " ">> \o ErrorWord
SevenText == <<"7">>
OtherText == <<"o", "t", "h", "e", "r">>

\* word in text
contains(text, word) ==
    \E i \in 1..(Len(text) - Len(word) + 1) :
        SubSeq(text, i, i + Len(word) - 1) = word
Entry(key, value) == [k \in {key} |-> value]

\* value.get(key, default): the default stands in for an absent key only
dict_get(value, key, default) ==
    IF value.t = "raise" THEN value
    ELSE IF value.t # "dict" THEN PyRaise("AttributeError")
    ELSE IF key \in DOMAIN value.items THEN value.items[key] ELSE default

\* value[0]
first_item(value) ==
    CASE value.t = "raise" -> value
      [] value.t = "list"  -> IF Len(value.elems) = 0 THEN PyRaise("IndexError")
                              ELSE value.elems[1]
      [] value.t = "str"   -> IF Len(value.text) = 0 THEN PyRaise("IndexError")
                              ELSE PyStr(<<value.text[1]>>)
      [] value.t = "dict"  -> PyRaise("KeyError")
      [] OTHER             -> PyRaise("TypeError")

\* if value:
truthy(value) ==
    CASE value.t = "none" -> FALSE
      [] value.t = "int"  -> value.v # 0
      [] value.t = "dict" -> DOMAIN value.items # {}
      [] value.t = "list" -> Len(value.elems) > 0
      [] value.t = "str"  -> Len(value.text) > 0
      [] OTHER            -> TRUE

\* f"{value:,}": the exception it raises, or "ok"
format_thousands(value) ==
    CASE value.t = "int" -> "ok"
      [] value.t = "str" -> "ValueError"
      [] OTHER           -> "TypeError"

\* "error" in document: a key of an object, an element of an array, a
\* part of a text
has_error(document) ==
    CASE document.t = "dict" -> "error" \in DOMAIN document.items
      [] document.t = "list" -> \E k \in 1..Len(document.elems) :
                                  /\ document.elems[k].t = "str"
                                  /\ document.elems[k].text = ErrorWord
      [] document.t = "str"  -> contains(document.text, ErrorWord)
      [] OTHER               -> FALSE

\* "error" in document raises for a document that is no container
has_error_raises(document) == document.t \in {"none", "int"}

\* query_endpoint: the JSON document of a 200 answer; every other answer,
\* a body that is no JSON and every transport failure become {"error": ...}
query_endpoint(response) ==
    IF response.kind = "exception"
    THEN PyDict(Entry("error", PyStr(OtherText)))
    ELSE IF response.status = HTTP_OK
         THEN IF response.json THEN response.value
              ELSE PyDict(Entry("error", PyStr(OtherText)))
         ELSE PyDict(Entry("error", PyStr(OtherText)))

\* document.get('data', {}).get('blocks', {}).get('nodes', [{}])[0].get(field)
latest_field(document, field) ==
    dict_get(
        first_item(
            dict_get(dict_get(dict_get(document, "data", EmptyDict),
                              "blocks", EmptyDict),
                     "nodes", PyList(<<EmptyDict>>))),
        field, PyNone)

\* document.get('data', {}).get('blocks', {}).get('totalCount')
total_count(document) ==
    dict_get(dict_get(dict_get(document, "data", EmptyDict), "blocks", EmptyDict),
             "totalCount", PyNone)

(***************************************************************************)
(* The float arithmetic of pct.  A natural number is the sequence of its   *)
(* digits to the base LIMB, least significant first, so that no            *)
(* intermediate value is held in a machine integer; a positive float is    *)
(* mant * 2^exp with a mantissa below 2^DOUBLE_BITS.  Every operation      *)
(* rounds to the nearest float, a value halfway between two floats to the  *)
(* one with the even mantissa.  The heights are below 2^30.                *)
(***************************************************************************)
DOUBLE_BITS == 53
PERCENT == 100
FOUR_DECIMALS == 10000
LIMB_BITS == 15

RECURSIVE pow2(_)
pow2(n) == IF n = 0 THEN 1 ELSE 2 * pow2(n - 1)

LIMB == pow2(LIMB_BITS)

RECURSIVE int_bit_length(_)
int_bit_length(n) == IF n = 0 THEN 0 ELSE 1 + int_bit_length(n \div 2)

RECURSIVE int_of(_)
int_of(limbs) ==
    IF Len(limbs) = 0 THEN 0 ELSE limbs[1] + LIMB * int_of(Tail(limbs))

RECURSIVE trim(_)
trim(limbs) ==
    IF Len(limbs) > 0 /\ limbs[Len(limbs)] = 0
    THEN trim(SubSeq(limbs, 1, Len(limbs) - 1))
    ELSE limbs

\* the number of bits of a number without leading zero digits
bit_length(limbs) ==
    IF Len(limbs) = 0 THEN 0
    ELSE (Len(limbs) - 1) * LIMB_BITS + int_bit_length(limbs[Len(limbs)])

limb_at(limbs, j) == IF j \in 1..Len(limbs) THEN limbs[j] ELSE 0

\* bit i of the number, the least significant being bit 1
bit_at(limbs, i) ==
    (limb_at(limbs, ((i - 1) \div LIMB_BITS) + 1)
        \div pow2((i - 1) % LIMB_BITS)) % 2

\* limbs * k + carry, for k and carry below LIMB
RECURSIVE times(_, _, _)
times(limbs, k, carry) ==
    IF Len(limbs) = 0
    THEN IF carry = 0 THEN <<>> ELSE <<carry>>
    ELSE LET product == limbs[1] * k + carry
         IN  <<product % LIMB>> \o times(Tail(limbs), k, product \div LIMB)

\* limbs + 1
RECURSIVE increment(_)
increment(limbs) ==
    IF Len(limbs) = 0 THEN <<1>>
    ELSE IF limbs[1] + 1 < LIMB THEN <<limbs[1] + 1>> \o Tail(limbs)
         ELSE <<0>> \o increment(Tail(limbs))

\* limbs // 2^drop
shift_right(limbs, drop) ==
    LET whole == drop \div LIMB_BITS
        part  == drop % LIMB_BITS
    IN  trim([j \in 1..(Len(limbs) - whole) |->
                 (limb_at(limbs, whole + j) \div pow2(part))
                 + (limb_at(limbs, whole + j + 1) % pow2(part))
                   * pow2(LIMB_BITS - part)])

\* the natural number nearest to limbs / 2^drop, the even one of two
\* equally near; sticky: the exact value is a little above limbs
round_half_even(limbs, drop, sticky) ==
    IF drop = 0 THEN limbs
    ELSE LET half == bit_at(limbs, drop) = 1
             rest == sticky \/ \E i \in 1..(drop - 1) : bit_at(limbs, i) = 1
             odd  == bit_at(limbs, drop + 1) = 1
             kept == shift_right(limbs, drop)
         IN  IF half /\ (rest \/ odd) THEN increment(kept) ELSE kept

\* the float nearest to limbs * 2^exp
to_double(limbs, exp, sticky) ==
    LET drop == bit_length(limbs) - DOUBLE_BITS
    IN  IF drop <= 0 THEN [mant |-> limbs, exp |-> exp]
        ELSE LET mant == round_half_even(limbs, drop, sticky)
             IN  IF bit_length(mant) > DOUBLE_BITS
                 THEN [mant |-> shift_right(mant, 1), exp |-> exp + drop + 1]
                 ELSE [mant |-> mant, exp |-> exp + drop]

\* the largest t with x * 2^t <= y, for 0 < x <= y
RECURSIVE doublings_within(_, _)
doublings_within(x, y) ==
    IF 2 * x <= y THEN 1 + doublings_within(2 * x, y) ELSE 0

\* the smallest t with x * 2^t >= y, for 0 < x
RECURSIVE doublings_to_reach(_, _)
doublings_to_reach(x, y) ==
    IF x >= y THEN 0 ELSE 1 + doublings_to_reach(2 * x, y)

\* the next n bits of the quotient rem / den after the bits of acc, and
\* the remainder they leave, for rem < den
RECURSIVE quotient_limb(_, _, _, _)
quotient_limb(rem, den, n, acc) ==
    IF n = 0 THEN [limb |-> acc, rem |-> rem]
    ELSE IF 2 * rem >= den
         THEN quotient_limb(2 * rem - den, den, n - 1, 2 * acc + 1)
         ELSE quotient_limb(2 * rem, den, n - 1, 2 * acc)

\* a / b of two positive ints: four digits of the quotient, which are more
\* bits than a float keeps, rounded once
true_divide(a, b) ==
    LET t      == IF a >= b THEN doublings_within(b, a)
                  ELSE 0 - doublings_to_reach(a, b)
        num    == IF t >= 0 THEN a ELSE a * pow2(0 - t)
        den    == IF t >= 0 THEN b * pow2(t) ELSE b
        first  == quotient_limb(num - den, den, LIMB_BITS - 1, 1)
        second == quotient_limb(first.rem, den, LIMB_BITS, 0)
        third  == quotient_limb(second.rem, den, LIMB_BITS, 0)
        fourth == quotient_limb(third.rem, den, LIMB_BITS, 0)
    IN  to_double(<<fourth.limb, third.limb, second.limb, first.limb>>,
                  t - (4 * LIMB_BITS - 1), fourth.rem # 0)

\* x * k of a positive float and a positive int below LIMB
float_times(x, k) == to_double(times(x.mant, k, 0), x.exp, FALSE)

\* f"{x:.4f}" of a positive float, in units of 0.0001: the exact value of
\* the float, a value halfway between two units going to the even one
fixed_e4(x) ==
    LET scaled == times(x.mant, FOUR_DECIMALS, 0)
    IN  IF x.exp >= 0 THEN int_of(scaled) * pow2(x.exp)
        ELSE int_of(round_half_even(scaled, 0 - x.exp, FALSE))

\* (diff / dp_height * 100) if dp_height > 0 else 0, as printed with four
\* decimals, in units of 0.0001
pct_e4(diff, dp_height) ==
    IF dp_height > 0 /\ diff # 0
    THEN LET magnitude == IF diff < 0 THEN 0 - diff ELSE diff
             units     == fixed_e4(float_times(true_divide(magnitude, dp_height),
                                               PERCENT))
         IN  IF diff < 0 THEN 0 - units ELSE units
    ELSE 0

\* the answers the two endpoints give to the latest-block query
Unset == [t |-> "unset"]
Http(status, value) == [kind |-> "http", status |-> status, json |-> TRUE, value |-> value]
Blocks(value) == PyDict(Entry("data", PyDict(Entry("blocks", value))))
Node(height) ==
    PyDict([k \in {"height", "timestamp"} |->
               IF k = "height" THEN height ELSE PyStr(OtherText)])
Nodes(list) == Blocks(PyDict(Entry("nodes", PyList(list))))

FailedResponses ==
    { [kind |-> "exception"],
      Http(500, PyNone),
      [kind |-> "http", status |-> HTTP_OK, json |-> FALSE, value |-> PyNone] }

LatestResponses ==
    FailedResponses
    \cup { Http(HTTP_OK, Nodes(<<Node(h)>>)) :
              h \in { PyInt(-2), PyInt(0), PyInt(7), PyInt(9), PyInt(128),
                      PyInt(617), PyInt(640),
                      PyStr(SevenText), EmptyStr, PyNone } }
    \cup { Http(HTTP_OK, Nodes(<<>>)),                    \* empty node list
           Http(HTTP_OK, Nodes(<<EmptyDict>>)),           \* node without height
           Http(HTTP_OK, PyDict(Entry("data", PyNone))),  \* "data": null
           Http(HTTP_OK, Blocks(PyNone)),                 \* "blocks": null
           Http(HTTP_OK, Blocks(PyDict(Entry("nodes", EmptyStr)))),
           Http(HTTP_OK, Blocks(PyDict(Entry("nodes", PyStr(SevenText))))),
           Http(HTTP_OK, PyDict(Entry("errors", PyList(<<PyStr(OtherText)>>)))),
           Http(HTTP_OK, PyDict(Entry("error", PyStr(OtherText)))),
           Http(HTTP_OK, PyStr(AnErrorText)),             \* a text with "error"
           Http(HTTP_OK, EmptyStr),                       \* the empty text
           Http(HTTP_OK, PyList(<<PyStr(ErrorWord)>>)),   \* ["error"]
           Http(HTTP_OK, PyNone) }                        \* the document null

CountResponses ==
    { [kind |-> "exception"],
      Http(500, PyNone),
      Http(HTTP_OK, Blocks(PyDict(Entry("totalCount", PyInt(9))))),
      Http(HTTP_OK, PyDict(Entry("errors", PyList(<<PyStr(OtherText)>>)))),
      Http(HTTP_OK, PyStr(AnErrorText)),
      Http(HTTP_OK, PyDict(Entry("data", PyNone))) }

SyncInputs ==
    [sn_latest : LatestResponses, dp_latest : LatestResponses,
     sn_count : CountResponses, dp_count : CountResponses]

SyncLocals ==
    [sn_result |-> Unset, dp_result |-> Unset, sn_height |-> Unset,
     dp_height |-> Unset, diff |-> Unset, pct |-> Unset,
     est_missing_txns |-> Unset, raised |-> "none"]

InitSync ==
    /\ NoScan
    /\ inp \in SyncInputs
    /\ out = SyncLocals

sync_unchanged ==
    UNCHANGED <<impl, file_system, index_exists, data_exists, index_file, data_file,
                total_entries, entry_idx, block_heights, encoder_types_count,
                max_height, min_height, block_count, parse_errors, expected,
                missing_count, gaps, total_missing, inp>>

\* the if/else on one latest-block result: the height kept, the line
\* printed, or the exception that leaves main()
height_step(query_result, tags) ==
    IF has_error_raises(query_result)
    THEN [raised |-> "TypeError", height |-> Unset, lines |-> <<>>]
    ELSE IF has_error(query_result)
    THEN IF query_result.t = "dict"
         THEN [raised |-> "none", height |-> PyNone, lines |-> <<tags.error>>]
         ELSE [raised |-> "TypeError", height |-> Unset, lines |-> <<>>]
    ELSE LET height == latest_field(query_result, "height")
         IN  IF height.t = "raise"
             THEN [raised |-> height.exc, height |-> Unset, lines |-> <<>>]
             ELSE IF truthy(height)
             THEN IF format_thousands(height) = "ok"
                  THEN [raised |-> "none", height |-> height, lines |-> <<tags.latest>>]
                  ELSE [raised |-> format_thousands(height), height |-> height,
                        lines |-> <<>>]
             ELSE [raised |-> "none", height |-> PyNone, lines |-> <<tags.no_block>>]

\* if "error" not in result: print the total; else: print the failure
count_step(query_result, tags) ==
    IF has_error_raises(query_result)
    THEN [raised |-> "TypeError", lines |-> <<tags.label>>]
    ELSE IF has_error(query_result)
    THEN [raised |-> "none", lines |-> <<tags.label, tags.error>>]
    ELSE LET total == total_count(query_result)
         IN  IF total.t = "raise"
             THEN [raised |-> total.exc, lines |-> <<tags.label>>]
             ELSE IF format_thousands(total) = "ok"
             THEN [raised |-> "none", lines |-> <<tags.label, tags.count>>]
             ELSE [raised |-> format_thousands(total), lines |-> <<tags.label>>]

\* both latest-block queries
QueryLatest ==
    /\ pc = "idle" /\ out = SyncLocals
    /\ out' = [out EXCEPT !.sn_result = query_endpoint(inp.sn_latest),
                          !.dp_result = query_endpoint(inp.dp_latest)]
    /\ output' = Append(output, "querying")
    /\ pc' = "sn_height"
    /\ UNCHANGED result
    /\ sync_unchanged

SafetyNetHeight ==
    /\ pc = "sn_height"
    /\ LET step == height_step(out.sn_result,
                       [error |-> "sn_error", latest |-> "sn_latest",
                        no_block |-> "sn_no_block"])
       IN  /\ out' = [out EXCEPT !.sn_height = step.height, !.raised = step.raised]
           /\ output' = output \o step.lines
           /\ pc' = IF step.raised = "none" THEN "dp_height" ELSE "aborted"
    /\ UNCHANGED result
    /\ sync_unchanged

DesoProdHeight ==
    /\ pc = "dp_height"
    /\ LET step == height_step(out.dp_result,
                       [error |-> "dp_error", latest |-> "dp_latest",
                        no_block |-> "dp_no_block"])
       IN  /\ out' = [out EXCEPT !.dp_height = step.height, !.raised = step.raised]
           /\ output' = output \o step.lines
           /\ pc' = IF step.raised = "none" THEN "difference" ELSE "aborted"
    /\ UNCHANGED result
    /\ sync_unchanged

\* if sn_height and dp_height: the difference and its verdict
Difference ==
    /\ pc = "difference"
    /\ IF truthy(out.sn_height) /\ truthy(out.dp_height)
       THEN LET diff == out.dp_height.v - out.sn_height.v
            IN  /\ out' = [out EXCEPT
                              !.diff = PyInt(diff),
                              !.pct = Percent(pct_e4(diff, out.dp_height.v)),
                              !.est_missing_txns =
                                  IF diff > 0 THEN PyInt(diff * AVG_TXNS_PER_BLOCK)
                                  ELSE Unset]
                /\ output' = output \o <<"difference">> \o
                                (IF diff = 0 THEN <<"perfect_sync">>
                                 ELSE IF diff > 0 THEN <<"behind">> ELSE <<"ahead">>)
       ELSE UNCHANGED <<out, output>>
    /\ pc' = "sn_count"
    /\ UNCHANGED result
    /\ sync_unchanged

CountSafetyNet ==
    /\ pc = "sn_count"
    /\ LET step == count_step(query_endpoint(inp.sn_count),
                       [label |-> "sn_count_label", count |-> "sn_count",
                        error |-> "sn_count_error"])
       IN  /\ out' = [out EXCEPT !.raised = step.raised]
           /\ output' = output \o <<"checking_counts">> \o step.lines
           /\ pc' = IF step.raised = "none" THEN "dp_count" ELSE "aborted"
    /\ UNCHANGED result
    /\ sync_unchanged

CountDesoProd ==
    /\ pc = "dp_count"
    /\ LET step == count_step(query_endpoint(inp.dp_count),
                       [label |-> "dp_count_label", count |-> "dp_count",
                        error |-> "dp_count_error"])
       IN  /\ out' = [out EXCEPT !.raised = step.raised]
           /\ output' = output \o step.lines
                           \o (IF step.raised = "none" THEN <<"end">> ELSE <<>>)
           /\ pc' = IF step.raised = "none" THEN "done" ELSE "aborted"
           /\ result' = IF step.raised = "none" THEN "None" ELSE result
    /\ sync_unchanged

NextSync ==
    \/ QueryLatest
    \/ SafetyNetHeight
    \/ DesoProdHeight
    \/ Difference
    \/ CountSafetyNet
    \/ CountDesoProd

SpecSync == InitSync /\ [][NextSync]_vars

(***************************************************************************)
(* Properties.                                                             *)
(***************************************************************************)
GapRange(g) == g[1]..g[2]

GapUnion(gs) == UNION { GapRange(gs[k]) : k \in 1..Len(gs) }

\* C1: for every non-empty set of observed heights the gap list of either
\* loop is sorted ascending by start, every gap has start <= end, two
\* successive gaps neither overlap nor touch, no gap holds an observed
\* height, and the gaps together with the observed heights are exactly
\* min_observed..max_observed; {10,11,13,14,17} gives (12,12), (15,16).
C1_GapListPartitionsSpan ==
    (out # <<>>) =>
        LET gs == out.gaps
        IN  /\ \A k \in 1..Len(gs) : gs[k][1] <= gs[k][2]
            /\ \A k \in 1..(Len(gs) - 1) : gs[k][2] + 1 < gs[k + 1][1]
            /\ \A k \in 1..Len(gs) : GapRange(gs[k]) \cap inp = {}
            /\ GapUnion(gs) \cup inp = SetMin(inp)..SetMax(inp)
            /\ (inp = {10, 11, 13, 14, 17}) => gs = << <<12, 12>>, <<15, 16>> >>

C1_Witness ==
    /\ out # <<>>
    /\ out.by = "tools"
    /\ inp = {10, 11, 13, 14, 17}
    /\ out.gaps = << <<12, 12>>, <<15, 16>> >>

\* C2: after a scan that observed a height, expected = max - min + 1 and
\* missing = expected - (number of heights in the map); missing is never
\* negative and equals the sum of the gap sizes, also when one height is
\* yielded by several records.
C2_MissingCountsDistinctHeights ==
    (pc = "done" /\ expected # None) =>
        /\ expected = max_height - min_height + 1
        /\ missing_count = expected - Cardinality(DOMAIN block_heights)
        /\ missing_count >= 0
        /\ missing_count = sum_gaps(gaps, 1)

\* the window of 8 bytes that starts off bytes before the end of the payload
TrailingWindow(bytes, off) == SubSeq(bytes, Len(bytes) - off + 1, Len(bytes) - off + 8)

RECURSIVE FirstPlausibleWindow(_, _)
FirstPlausibleWindow(bytes, k) ==
    IF k > Len(OFFSETS_FROM_END) THEN None
    ELSE LET off == OFFSETS_FROM_END[k]
         IN  IF off <= Len(bytes)
                /\ 0 < unpack_Q(TrailingWindow(bytes, off))
                /\ unpack_Q(TrailingWindow(bytes, off)) < MAX_BLOCK_HEIGHT
             THEN unpack_Q(TrailingWindow(bytes, off))
             ELSE FirstPlausibleWindow(bytes, k + 1)

\* C3: for a block payload of at least 24 bytes the extraction returns the
\* value of the first of the windows 8, 16, 24, 32, 40, 48 bytes before the
\* end that fits and holds a value v with 0 < v < 100000000 (the final 8
\* bytes first), and no height only if no fitting window holds one.
C3_FirstPlausibleTrailingWindow ==
    (out # <<>> /\ out.by = "tools" /\ inp.enc = ENCODER_TYPE_BLOCK
       /\ Len(Payload(inp)) >= MIN_BLOCK_ENTRY_LENGTH) =>
        out.r.block_height = FirstPlausibleWindow(Payload(inp), 1)

\* C4: every height stored in the height -> ordinal map lies strictly
\* between 0 and 100000000; 0 and 100000000 themselves are never stored.
C4_StoredHeightsPlausible ==
    \A h \in DOMAIN block_heights :
        /\ 0 < h /\ h < MAX_BLOCK_HEIGHT
        /\ h # 0 /\ h # MAX_BLOCK_HEIGHT

\* the index entry at ordinal i points at the record whose windows hold
\* 100000000, 0 and 99999999
PointsAtBoundaryRecord(i) ==
    FileRead(index_file, i * INDEX_ENTRY_SIZE, INDEX_ENTRY_SIZE) = LE(RecordOffset(3), 8)

C4_Witness ==
    /\ impl = "tools"
    /\ entry_idx >= 1
    /\ PointsAtBoundaryRecord(0)
    /\ DOMAIN block_heights = {MAX_BLOCK_HEIGHT - 1}

\* C5: no per-record condition aborts the scan: whatever the index entry
\* and the record of an ordinal hold, the run goes on to the next ordinal
\* and to the report.
C5_NoRecordAbortsTheScan == pc # "aborted"

\* what the tools scan makes of ordinal i
ToolsOutcome(i) == tools_read_entry(index_file, data_file, i)

\* ordinal i is a per-record failure: short index read, seek failure,
\* truncated or oversize length, short payload or undecodable header
ToolsFailed(i) ==
    \/ ToolsOutcome(i).kind # "parsed"
    \/ ToolsOutcome(i).encoder_type = None

\* C6: each per-record recoverable failure increments the error counter by
\* exactly one.
C6_EveryFailureCounted ==
    (impl = "tools" /\ pc \in {"scan", "done"}) =>
        parse_errors = Cardinality({ i \in 0..(entry_idx - 1) : ToolsFailed(i) })

\* C7: if the index file or the data file is missing the error is reported
\* once and the run does not proceed: nothing is read, no counts and no
\* gap analysis are produced, and the call does not return success.
C7_MissingFileStopsRun ==
    (~index_exists \/ ~data_exists) =>
        /\ pc \in {"start", "done"}
        /\ entry_idx = 0 /\ total_entries = 0
        /\ block_heights = <<>> /\ encoder_types_count = <<>>
        /\ block_count = 0 /\ parse_errors = 0
        /\ expected = None /\ missing_count = None
        /\ gaps = None /\ total_missing = None
        /\ (pc = "start") => (output = <<>> /\ result = "unset")
        /\ (pc = "done") =>
              /\ output \in {<<"index_not_found">>, <<"data_not_found">>}
              /\ result = IF impl = "tools" THEN "False" ELSE "None"

C7_Witness ==
    /\ pc = "done"
    /\ index_exists /\ ~data_exists
    /\ Len(index_file) = INDEX_ENTRY_SIZE
    /\ output = <<"data_not_found">>
    /\ result = "False"

InOutput(line) == \E k \in 1..Len(output) : output[k] = line

\* C8: when the scan completes with zero observed heights the report says
\* that no blocks were found, and neither min/max, expected/missing nor a
\* gap list are computed or printed.
C8_NoBlocksNoGapAnalysis ==
    (pc = "done" /\ index_exists /\ data_exists /\ DOMAIN block_heights = {}) =>
        /\ InOutput("no_blocks")
        /\ expected = None /\ missing_count = None
        /\ gaps = None /\ total_missing = None
        /\ ~InOutput("min_max") /\ ~InOutput("expected_missing")
        /\ ~InOutput("gaps") /\ ~InOutput("no_gaps")

C8_Witness ==
    /\ pc = "done" /\ impl = "tools"
    /\ total_entries = MaxEntries
    /\ DOMAIN block_heights = {}
    /\ InOutput("no_blocks")

\* the outcome of ordinal i in the running script
Outcome(i) ==
    IF impl = "tools" THEN tools_read_entry(index_file, data_file, i)
    ELSE cmd_read_entry(index_file, data_file, i, "read")

\* ordinal i yields height h
Yields(i, h) ==
    LET r == Outcome(i)
    IN  /\ r.kind = "parsed" /\ r.encoder_type = ENCODER_TYPE_BLOCK
        /\ r.block_height = h

\* C9: for every height of the map the stored ordinal is the greatest
\* processed ordinal from which that height was extracted.
C9_LastSeenOrdinalWins ==
    (pc \in {"scan", "done"}) =>
        \A h \in DOMAIN block_heights :
            /\ block_heights[h] \in 0..(entry_idx - 1)
            /\ Yields(block_heights[h], h)
            /\ \A i \in 0..(entry_idx - 1) : Yields(i, h) => i <= block_heights[h]

C9_Witness ==
    /\ pc = "done"
    /\ \E h \in DOMAIN block_heights :
          /\ block_heights[h] = 2
          /\ Yields(0, h) /\ ~Yields(1, h) /\ Yields(2, h)

\* C10: the encoder kind that classifies a record is the varint that
\* follows the is_reverted byte, which follows the operation_kind varint,
\* and a record is treated as a block exactly when that value is 2.
C10_EncoderKindAfterVarintHeader ==
    (out # <<>>) =>
        /\ out.r.encoder_type = inp.enc
        /\ (out.r.block_height # None) => (inp.enc = ENCODER_TYPE_BLOCK)

\* the same for the parser of tools/analyze_state_changes.py alone
C10_ToolsDecodesVarintHeader ==
    (out # <<>> /\ out.by = "tools") =>
        /\ out.r.encoder_type = inp.enc
        /\ (out.r.block_height # None) => (inp.enc = ENCODER_TYPE_BLOCK)


\* position (0-based) after the varint that starts at pos, or None when the
\* bytes end before a byte with the top bit clear
RECURSIVE VarintEnd(_, _)
VarintEnd(bytes, pos) ==
    IF pos >= Len(bytes) THEN None
    ELSE IF bytes[pos + 1] < 128 THEN pos + 1
    ELSE VarintEnd(bytes, pos + 1)

\* the three header fields lie inside the bytes
HeaderComplete(bytes) ==
    LET op_end == VarintEnd(bytes, 0)
    IN  /\ op_end # None
        /\ op_end < Len(bytes)
        /\ VarintEnd(bytes, op_end + 1) # None

\* C11: header decoding yields no encoder kind (and no height) whenever one
\* of the three header fields runs past the end of the payload, an
\* unterminated operation_kind or encoder_kind varint included.
C11_TruncatedHeaderYieldsNoKind ==
    (out # <<>> /\ out.by = "tools" /\ ~HeaderComplete(inp.bytes)) =>
        (out.r.encoder_type = None /\ out.r.block_height = None)

\* every byte has the top bit set (the empty sequence included)
Unterminated(bytes) == \A k \in 1..Len(bytes) : bytes[k] >= 128

\* C12: both varint decoders report failure and return no value when the
\* source ends before a byte with the top bit clear, an empty source
\* included.
C12_ExhaustedSourceIsFailure ==
    (out # <<>> /\ out.by \in {"stream", "slice"} /\ Unterminated(inp.bytes)) =>
        ~out.returned

\* the streaming reader alone
C12_StreamReportsExhaustion ==
    (out # <<>> /\ out.by = "stream") =>
        (out.returned <=> ~Unterminated(inp.bytes))

\* C13: decoding the base-128 encoding of v returns v and consumes exactly
\* the bytes of the encoding, whatever follows it (both decoders; v below
\* BIG, encodings of one to five bytes).
C13_VarintRoundTrip ==
    (out # <<>> /\ out.by \in {"stream", "slice"} /\ inp.v # None) =>
        /\ out.returned
        /\ out.value = inp.v
        /\ out.pos = inp.n

C13_Witness ==
    /\ out # <<>> /\ out.by = "stream"
    /\ inp.v = 16384 /\ inp.n = 3
    /\ inp.bytes = <<128, 128, 1, 255, 1>>
    /\ out.value = 16384 /\ out.pos = 3


\* C14: when a record [varint(len)][len bytes] lies wholly inside the data
\* file at offset o and index entry i holds o, the payload obtained for
\* ordinal i is exactly those len bytes, whatever precedes or follows the
\* record in the data file.
C14_DataLogRoundTrip ==
    (out # <<>> /\ inp.whole) =>
        (out.why = "ok" /\ out.bytes = inp.payload)

C14_Witness ==
    /\ out # <<>> /\ out.by = "tools"
    /\ inp.whole /\ inp.ordinal = 1
    /\ inp.payload = Fill(130)
    /\ SubSeq(inp.file, 1, 3) = <<255, 255, 1>>
    /\ Len(inp.file) > 3 + 2 + 130
    /\ out.bytes = Fill(130)

\* C15: a record whose length prefix exceeds 10 MiB is rejected as oversize
\* and skipped; a length of exactly 10 MiB or less is not rejected on
\* length grounds.
C15_OversizeRejectedAboveCeiling ==
    (out # <<>> /\ ~inp.whole) =>
        (out.why = "oversize" <=> inp.length > MAX_ENTRY_LENGTH)

\* tools/analyze_state_changes.py alone
C15_ToolsRejectsAboveCeiling ==
    (out # <<>> /\ out.by = "tools") =>
        (out.why = "oversize" <=> inp.length > MAX_ENTRY_LENGTH)


\* the 8 bytes of the index file at ordinal i
EntryAt(i) ==
    SubSeq(index_file, i * INDEX_ENTRY_SIZE + 1, i * INDEX_ENTRY_SIZE + INDEX_ENTRY_SIZE)

\* the u64 values written into each record of DataRecords
StoredValues ==
    << {10}, {13}, {MAX_BLOCK_HEIGHT - 1, 0, MAX_BLOCK_HEIGHT}, {12}, {14}, {17},
       {}, {15}, {}, {} >>

\* C16: the ordinals scanned are 0 .. floor(index size / 8) - 1, each read
\* at byte position ordinal * 8 as a little-endian u64; a trailing partial
\* entry of 1 to 7 bytes is ignored and is not an error.
C16_OrdinalsAreWholeIndexEntries ==
    (index_exists /\ data_exists /\ pc # "start") =>
        /\ total_entries * INDEX_ENTRY_SIZE <= Len(index_file)
        /\ Len(index_file) < (total_entries + 1) * INDEX_ENTRY_SIZE
        /\ entry_idx \in 0..total_entries
        /\ (pc = "done" => entry_idx = total_entries)
        /\ (impl = "tools" =>
              parse_errors = Cardinality({ i \in 0..(entry_idx - 1) :
                                              seek_raises(EntryAt(i)) }))
        /\ \A h \in DOMAIN block_heights :
              /\ block_heights[h] \in 0..(entry_idx - 1)
              /\ \E k \in 1..Len(DataRecords) :
                    /\ EntryAt(block_heights[h]) = LE(RecordOffset(k), INDEX_ENTRY_SIZE)
                    /\ h \in StoredValues[k]

C16_Witness ==
    /\ pc = "done" /\ impl = "tools"
    /\ Len(index_file) = 2 * INDEX_ENTRY_SIZE + 7
    /\ total_entries = 2 /\ entry_idx = 2
    /\ parse_errors = 0
    /\ DOMAIN block_heights = {10, 17}


\* ordinal i is a block-kind record in which no window holds a plausible
\* height
HeuristicMiss(i) ==
    /\ ToolsOutcome(i).kind = "parsed"
    /\ ToolsOutcome(i).encoder_type = ENCODER_TYPE_BLOCK
    /\ ToolsOutcome(i).block_height = None

KindCount(k) ==
    IF k \in DOMAIN encoder_types_count THEN encoder_types_count[k] ELSE 0

\* a miss is not an error: it adds nothing to the error counter or to the
\* height map, and it is counted under kind 2
C18_MissIsNotAnError ==
    (impl = "tools" /\ pc \in {"scan", "done"}) =>
        /\ parse_errors = Cardinality({ i \in 0..(entry_idx - 1) :
                                           ToolsOutcome(i).kind = "raise" })
        /\ \A h \in DOMAIN block_heights : ~HeuristicMiss(block_heights[h])
        /\ KindCount(ENCODER_TYPE_BLOCK) =
              Cardinality({ i \in 0..(entry_idx - 1) :
                               /\ ToolsOutcome(i).kind = "parsed"
                               /\ ToolsOutcome(i).encoder_type = ENCODER_TYPE_BLOCK })

\* C18: a block-kind record with no plausible height in any window is a
\* heuristic miss, not an error: the error counter and the height map are
\* unchanged, the record is counted under kind 2, and the miss is recorded
\* in a tally of heuristic misses separate from the parse-error tally,
\* which the final report gives.
C18_HeuristicMissTallied ==
    /\ C18_MissIsNotAnError
    /\ (impl = "tools" /\ pc = "done"
          /\ \E i \in 0..(entry_idx - 1) : HeuristicMiss(i))
        => InOutput("heuristic_misses")


\* the heights missing between the smallest and the greatest height
MissingHeights(S) == (SetMin(S)..SetMax(S)) \ S

\* C19: the cap of 50 on displayed gaps truncates the display only: with
\* more than 50 gaps the gap list, the number of gaps reported and the
\* total missing from gaps cover every gap, the total being the sum of
\* end - start + 1 over all gaps.
C19_GapCapIsDisplayOnly ==
    (out # <<>> /\ out.by = "report") =>
        /\ GapUnion(out.gaps) = MissingHeights(inp)
        /\ out.found = Cardinality({ h \in inp : h # SetMax(inp) /\ h + 1 \notin inp })
        /\ out.found = Len(out.gaps)
        /\ (out.found > 0) =>
              out.total_missing = Cardinality(MissingHeights(inp))
        /\ (out.found = 0) => out.total_missing = None
        /\ Len(out.shown) = Min2(out.found, GAP_DISPLAY_CAP)
        /\ out.more = out.found - Len(out.shown)

C19_Witness ==
    /\ out # <<>> /\ out.by = "report"
    /\ out.found = 61 /\ Len(out.shown) = GAP_DISPLAY_CAP /\ out.more = 11
    /\ out.total_missing = 139
    /\ sum_gaps(out.shown, 1) = 95


\* C20: a record yields a height only if its decoded encoder kind is 2 and
\* its payload is at least 24 bytes long; a record of another kind, or a
\* block-kind record shorter than 24 bytes, yields none even when its
\* trailing bytes hold a plausible value.
C20_HeightOnlyFromBlockKindOf24Bytes ==
    (out # <<>> /\ out.r.block_height # None) =>
        /\ inp.enc = ENCODER_TYPE_BLOCK
        /\ Len(Payload(inp)) >= MIN_BLOCK_ENTRY_LENGTH

\* the same for the parser of tools/analyze_state_changes.py alone
C20_ToolsNeedsBlockKindOf24Bytes ==
    (out # <<>> /\ out.by = "tools" /\ out.r.block_height # None) =>
        /\ inp.enc = ENCODER_TYPE_BLOCK
        /\ Len(Payload(inp)) >= MIN_BLOCK_ENTRY_LENGTH


\* what ordinal i yields when its index entry is the only entry of the
\* index file and the files have just been opened
Alone(i) == tools_read_entry(EntryAt(i), data_file, 0)

\* the ordinals processed by the first entry_idx iterations
Processed == { inp[k] : k \in 1..entry_idx }

\* C21: what an ordinal contributes depends only on the ordinal and the
\* contents of the two files, not on the ordinals processed before it or
\* on the file positions they left (after a failed or short read too):
\* in any order the per-kind counts, the error count and the set of
\* observed heights are those of the ordinals taken one by one, so a
\* corrupt record changes no other ordinal's contribution.
C21_OutcomeIndependentOfOrder ==
    (pc \in {"scan", "done"}) =>
        /\ \A k \in DOMAIN encoder_types_count \cup {0, 2, 3} :
              KindCount(k) = Cardinality({ i \in Processed :
                                              /\ Alone(i).kind = "parsed"
                                              /\ Alone(i).encoder_type = k })
        /\ parse_errors = Cardinality({ i \in Processed : Alone(i).kind = "raise" })
        /\ DOMAIN block_heights =
              { Alone(i).block_height : i \in { j \in Processed : tools_accepts(Alone(j)) } }
        /\ block_count = Cardinality({ j \in Processed : tools_accepts(Alone(j)) })

C21_Witness ==
    /\ pc = "done" /\ entry_idx = 3
    /\ inp = <<2, 0, 1>>
    /\ EntryAt(0) = LE(RecordOffset(2), 8)
    /\ EntryAt(1) = <<0, 0, 0, 0, 0, 0, 0, 128>>
    /\ EntryAt(2) = LE(RecordOffset(10), 8)
    /\ parse_errors = 1
    /\ DOMAIN block_heights = {13}
    /\ out.index = 16 /\ out.data > 0


\* the height of ordinal i is accepted into the map
Accepted(i) ==
    IF impl = "tools" THEN tools_accepts(Outcome(i)) ELSE cmd_accepts(Outcome(i))

AcceptedHeights(n) ==
    { Outcome(i).block_height : i \in { j \in 0..(n - 1) : Accepted(j) } }

ConsistentSoFar ==
    (pc \in {"scan", "done", "aborted"}) =>
        /\ DOMAIN block_heights = AcceptedHeights(entry_idx)
        /\ (DOMAIN block_heights # {}) =>
              /\ min_height = SetMin(DOMAIN block_heights)
              /\ max_height = SetMax(DOMAIN block_heights)

\* C22: after any prefix of the ordinals the accumulated state is
\* consistent: the keys of the height map are exactly the heights accepted
\* from the ordinals processed so far, min_height and max_height are the
\* smallest and the largest key when there is one, and no key is ever
\* removed as the scan advances.
C22_PartialScanConsistent ==
    /\ []ConsistentSoFar
    /\ [][DOMAIN block_heights \subseteq DOMAIN block_heights']_vars

C22_Witness ==
    /\ pc = "scan" /\ entry_idx = 2 /\ total_entries = 3
    /\ DOMAIN block_heights = {13, 17}
    /\ min_height = 13 /\ max_height = 17
    /\ EntryAt(2) = LE(RecordOffset(1), 8)


\* C23: with an index file and a data file of finite size that both open,
\* the scan terminates: the ordinals 0 .. total_entries - 1 are visited
\* once each in ascending order, every iteration finishes (also one that
\* decodes a length varint whose bytes all have the top bit set up to the
\* end of the file), and the report is eventually reached.
C23_ScanTerminates ==
    /\ []((pc = "scan" /\ entry_idx < total_entries) =>
            ToolsOutcome(entry_idx).kind \in {"skip", "raise", "parsed"})
    /\ [][(pc = "scan" /\ pc' = "scan") =>
             (entry_idx < total_entries /\ entry_idx' = entry_idx + 1)]_vars
    /\ (pc = "start") ~>
          (pc = "done" /\ entry_idx = total_entries
             /\ (InOutput("complete") \/ InOutput("no_blocks")))

C23_Witness ==
    /\ pc = "done" /\ entry_idx = 3 /\ total_entries = 3
    /\ EntryAt(1) = LE(Len(DataFile) - 1, 8)
    /\ EntryAt(0) = LE(RecordOffset(1), 8)
    /\ InOutput("complete")


\* C24: the value the varint decoder returns is a u64, that is, it has at
\* most 64 bits, for every byte sequence, those with ten or more
\* continuation bytes included.
C24_DecodedValueFitsU64 ==
    (out # <<>> /\ out.by = "stream" /\ out.returned) => out.bits <= 64


\* C25: the two gap-finding loops are equivalent: for every non-empty set
\* of observed heights the loop of cmd (previous height seeded with
\* heights[0] - 1) and the loop of tools (consecutive pairs) give the same
\* ordered list of (start, end) gaps.
C25_GapLoopsEquivalent ==
    (out # <<>>) =>
        /\ (out.by = "cmd") => out.gaps = find_gaps(sorted(inp))
        /\ (out.by = "tools") => out.gaps = cmd_find_gaps(sorted(inp))

C25_Witness ==
    /\ out # <<>> /\ out.by = "cmd"
    /\ Cardinality(inp) = 62
    /\ Len(out.gaps) = 61
    /\ out.gaps = find_gaps(sorted(inp))


\* ordinal i was decoded with encoder kind 0
DecodedKindZero(i) ==
    /\ ToolsOutcome(i).kind = "parsed"
    /\ ToolsOutcome(i).encoder_type = 0

\* C26: the critical "all entries showing encoder type 0" warning is emitted
\* only when the index holds at least one entry and every entry was decoded
\* with encoder kind 0; it is not emitted for an empty index or when an
\* entry was skipped or decoded with another kind.
C26_CriticalWarningOnlyWhenAllKindZero ==
    (impl = "tools" /\ pc = "done" /\ index_exists /\ data_exists) =>
        (InOutput("critical_type_0") <=>
            /\ total_entries >= 1
            /\ \A i \in 0..(total_entries - 1) : DecodedKindZero(i))

\* for an index of at least one entry the warning is printed exactly when
\* every entry was decoded with kind 0
C26_NonEmptyIndexWarningIffAllKindZero ==
    (impl = "tools" /\ pc = "done" /\ index_exists /\ data_exists
        /\ total_entries >= 1) =>
        (InOutput("critical_type_0") <=>
            \A i \in 0..(total_entries - 1) : DecodedKindZero(i))

\* a run over two kind-0 entries prints the warning
C26_AllKindZeroWarned ==
    /\ impl = "tools" /\ pc = "done" /\ total_entries = 2
    /\ \A i \in 0..1 : DecodedKindZero(i)
    /\ InOutput("critical_type_0")


RECURSIVE SumOver(_, _)
SumOver(f, S) ==
    IF S = {} THEN 0
    ELSE LET k == CHOOSE x \in S : TRUE IN f[k] + SumOver(f, S \ {k})

\* sum of all per-kind counters
CountedTotal == SumOver(encoder_types_count, DOMAIN encoder_types_count)

\* ordinals processed so far whose header decoded
HeaderDecoded ==
    { i \in 0..(entry_idx - 1) :
        /\ ToolsOutcome(i).kind = "parsed"
        /\ ToolsOutcome(i).encoder_type # None }

KindsSeen == DOMAIN encoder_types_count \cup DOMAIN encoder_types_count'

CountsConsistent ==
    (impl = "tools" /\ pc \in {"scan", "done"}) =>
        /\ CountedTotal = Cardinality(HeaderDecoded)
        /\ CountedTotal <= entry_idx
        /\ block_count <= KindCount(2)
        /\ Cardinality(DOMAIN block_heights) <= KindCount(2)

\* one ordinal of the tools scan: at most one counter moves, by exactly
\* one, and only when the header of that ordinal decoded
OneCountPerOrdinal ==
    (impl = "tools" /\ pc = "scan" /\ entry_idx' = entry_idx + 1) =>
        LET moved == { k \in KindsSeen : KindCount(k)' # KindCount(k) }
        IN  /\ Cardinality(moved) <= 1
            /\ \A k \in moved : KindCount(k)' = KindCount(k) + 1
            /\ (moved # {}) <=>
                  (/\ ToolsOutcome(entry_idx).kind = "parsed"
                   /\ ToolsOutcome(entry_idx).encoder_type # None)
            /\ \A k \in moved : k = ToolsOutcome(entry_idx).encoder_type

\* C27: each processed ordinal increments at most one per-kind counter, by
\* exactly one, and only if its header decoded; the sum of the per-kind
\* counts equals the number of processed ordinals whose header decoded and
\* never exceeds the ordinals processed, and the number of accepted block
\* heights never exceeds the count for kind 2.
C27_KindCountsMatchDecodedHeaders ==
    /\ []CountsConsistent
    /\ [][OneCountPerOrdinal]_vars

\* three ordinals: a block, a kind-3 record, a payload without a header
C27_Witness ==
    /\ impl = "tools" /\ pc = "done" /\ entry_idx = 3
    /\ EntryAt(0) = LE(RecordOffset(1), 8)
    /\ EntryAt(1) = LE(RecordOffset(5), 8)
    /\ EntryAt(2) = LE(RecordOffset(7), 8)
    /\ KindCount(2) = 1 /\ KindCount(3) = 1
    /\ CountedTotal = 2
    /\ block_count = 1


\* ordinals of the finished scan that were skipped or raised
Undecodable == { i \in 0..(total_entries - 1) : ToolsFailed(i) }

\* C28: analyze_state_changes of the tools script returns success (exit
\* status 0) exactly when both files exist and at least one block height
\* was observed; a missing file or a scan with zero heights is a failure
\* (exit status 1), and skipped or undecodable records alone never turn a
\* run with at least one height into a failure.
C28_SuccessIffFilesAndAHeight ==
    (impl = "tools" /\ pc = "done") =>
        /\ result \in {"True", "False"}
        /\ result = "True" <=>
              (index_exists /\ data_exists /\ DOMAIN block_heights # {})
        /\ exit_status(result) = 0 <=>
              (index_exists /\ data_exists /\ DOMAIN block_heights # {})
        /\ (~index_exists \/ ~data_exists) => exit_status(result) = 1
        /\ (index_exists /\ data_exists /\ DOMAIN block_heights = {}) =>
              exit_status(result) = 1

\* one height next to a seek failure and a payload without a header: success
C28_Witness ==
    /\ impl = "tools" /\ pc = "done" /\ total_entries = 3
    /\ Cardinality(Undecodable) = 2
    /\ parse_errors = 1
    /\ DOMAIN block_heights = {13}
    /\ result = "True"
    /\ exit_status(result) = 0

\* a missing data file ends the run with exit status 1
C28_MissingFileFails ==
    /\ impl = "tools" /\ pc = "done" /\ index_exists /\ ~data_exists
    /\ result = "False" /\ exit_status(result) = 1


\* answers without a usable latest block: a transport failure, a status
\* other than 200, a body that is no JSON, an empty node list, "data": null
FailedLatest == FailedResponses

EmptyLatest ==
    { Http(HTTP_OK, Nodes(<<>>)), Http(HTTP_OK, PyDict(Entry("data", PyNone))) }

\* answers with a latest block of positive integer height
UsableLatest == { Http(HTTP_OK, Nodes(<<Node(PyInt(h))>>)) : h \in {7, 9} }

\* answers the block-count section prints a count or a failure for
PrintableCounts ==
    { r \in CountResponses :
        \/ has_error(query_endpoint(r))
        \/ total_count(query_endpoint(r)).t = "int" }

HeightDecided(endpoint) ==
    IF endpoint = "sn"
    THEN pc \in {"dp_height", "difference", "sn_count", "dp_count", "done"}
    ELSE pc \in {"difference", "sn_count", "dp_count", "done"}

\* the endpoint is reported without a height and the run goes on to the end
ReportedUnavailable(endpoint) ==
    /\ pc # "aborted"
    /\ HeightDecided(endpoint) =>
          IF endpoint = "sn"
          THEN /\ out.sn_height = PyNone
               /\ InOutput("sn_error") \/ InOutput("sn_no_block")
          ELSE /\ out.dp_height = PyNone
               /\ InOutput("dp_error") \/ InOutput("dp_no_block")
    /\ ~InOutput("difference")
    /\ pc = "done" => (InOutput("checking_counts") /\ InOutput("end"))

OtherEndpointFine(response) ==
    response \in FailedLatest \cup EmptyLatest \cup UsableLatest

\* C29: in check_block_sync, for each endpoint independently, an answer
\* without a usable latest block (transport or HTTP error, a 200 answer
\* with an empty node list, or "data": null) leaves that endpoint's height
\* unavailable with a message, skips the difference computation, and the
\* run continues to the block-count section and finishes normally.
C29_NoUsableBlockIsReported ==
    (inp \in SyncInputs /\ inp.sn_count \in PrintableCounts
        /\ inp.dp_count \in PrintableCounts) =>
        /\ (inp.sn_latest \in FailedLatest \cup EmptyLatest
               /\ OtherEndpointFine(inp.dp_latest)) => ReportedUnavailable("sn")
        /\ (inp.dp_latest \in FailedLatest \cup EmptyLatest
               /\ OtherEndpointFine(inp.sn_latest)) => ReportedUnavailable("dp")

\* the part that holds: a transport failure, a status other than 200 and a
\* body that is no JSON are reported and the run finishes
C29_FailedQueryIsReported ==
    (inp \in SyncInputs /\ inp.sn_count \in PrintableCounts
        /\ inp.dp_count \in PrintableCounts) =>
        /\ (inp.sn_latest \in FailedLatest
               /\ inp.dp_latest \in FailedLatest \cup UsableLatest)
             => ReportedUnavailable("sn")
        /\ (inp.dp_latest \in FailedLatest
               /\ inp.sn_latest \in FailedLatest \cup UsableLatest)
             => ReportedUnavailable("dp")

\* a failed SafetyNet query next to a usable DeSo Prod block, run finished
C29_FailedQueryFinishes ==
    /\ pc = "done" /\ inp \in SyncInputs
    /\ inp.sn_latest = [kind |-> "exception"]
    /\ inp.dp_latest \in UsableLatest
    /\ out.sn_height = PyNone /\ out.dp_height = PyInt(9)
    /\ InOutput("sn_error") /\ InOutput("dp_latest") /\ InOutput("end")

\* an empty node list ends main() with an IndexError
C29_EmptyNodeListAborts ==
    /\ pc = "aborted" /\ inp \in SyncInputs
    /\ inp.sn_latest = Http(HTTP_OK, Nodes(<<>>))
    /\ out.raised = "IndexError"
    /\ ~InOutput("sn_no_block") /\ ~InOutput("checking_counts")

====
